---- MODULE Spec2Model ----
(***************************************************************************)
(* Model of the decision-and-reconciliation pipeline of stocks-automation  *)
(* (src/trading).  Each component is a section of this module with its own *)
(* variables, its own Init/Next and its own specification; the variables   *)
(* of the other components stay at their idle value in that specification. *)
(*                                                                         *)
(* Number representation (Python floats are modelled by exact integers):   *)
(*   returns          integer percentage points (0.01 = 1)                 *)
(*   fractions        num/den pairs of integers                            *)
(*   value scores     hundredths (score 65.50 = 6550)                      *)
(*   priorities       thousandths (priority 66.5 = 66500)                   *)
(*   window position  ten-thousandths (0.20 = 2000), as round(position, 4) *)
(*   money, prices    cents                                                *)
(*   time             ticks, TicksPerDay ticks to a calendar day           *)
(***************************************************************************)
EXTENDS Integers, Sequences, FiniteSets, TLC

VARIABLES
    \* sector_rotation.py
    performances,      \* the argument of compute_sector_allocations
    alloc,             \* its result, None before the call
    \* signal_generator.py, generate_signal
    sigIn,             \* the arguments of one generate_signal call
    sig,               \* the Signal it returned, None before the call
    \* signal_generator.py, generate_all_signals
    value_scores,      \* {symbol: score}, symbols may be missing
    windows,           \* {symbol: WindowResult | None}, symbols may be missing
    held_symbols,      \* set of held symbols
    risk_flags_by_symbol, \* {symbol: RiskFlags}, symbols may be missing
    signals,           \* the returned list, None before the call
    \* trading_window.py
    closes,            \* historical_df["Close"], oldest first
    current_price,     \* the live price, None when none is supplied
    window,            \* the WindowResult, None before the call or without one
    windowDone,        \* compute_trading_window has returned
    windowSignal,      \* what get_window_signal returned, None before the call
    \* risk_manager.py
    now,               \* datetime.utcnow(), in ticks
    blocked,           \* WashSaleTracker.blocked: {symbol: expiry iso string}
    washFile,          \* content of WASH_SALE_FILE
    washCall,          \* the last WashSaleTracker call and what it returned
    lastBlock,         \* history: time of the last blocking sale per symbol
    pending,           \* SettlementTracker.pending: {date string: amount}
    settleCall,        \* the last SettlementTracker call and what it returned
    recorded,          \* history: proceeds recorded per calendar day
    \* portfolio_tracker.py and the trade log of order_executor.py
    mode,              \* run(mode, ...): "SIM" or "REAL"
    tradesFile,        \* content of TRADES_FILE
    simTrades,         \* SimExecutor.trades
    holdings,          \* PortfolioTracker.holdings: {symbol: {qty, avg_cost}}
    cash,              \* PortfolioTracker.cash
    total_value,       \* PortfolioTracker.total_value
    portfolioFile,     \* content of PORTFOLIO_STATE_FILE
    trackerCall,       \* the last PortfolioTracker or SimExecutor call
    lastSim,           \* history: ledger and result of the last sync_from_sim
    \* order_executor.py, RealExecutor._execute
    order,             \* the arguments of the running call, None when idle
    execPc,            \* position of the call: idle, preview, place, done
    preview,           \* what session.preview_order returned
    requests,          \* history: the requests posted to the brokerage
    outcome,           \* what _execute returned, None before it returns
    \* main.py, the polling loop
    cycle,             \* the cycle counter
    cycleSignals,      \* the signals of the cycle, in the order of the list
    sigIdx,            \* the signal the for loop is at
    cyclePc,           \* position of the cycle: orders, sync, done
    live_prices,       \* {symbol: last price}, symbols may be missing
    cycleAllocations,  \* allocations: {sector: fraction}
    sizing,            \* the last compute_position_size call and its result
    orders,            \* history: what the loop did with each signal
    running,           \* the flag the shutdown handler clears
    waited,            \* increments _sleep has slept; WaitIncrements: it returned
    \* value_scorer.py
    fundamentals,      \* the argument of compute_value_score
    scored             \* the sub-scores and the score, None before the call

sectorVars == <<performances, alloc>>
signalVars == <<sigIn, sig>>
batchVars == <<value_scores, windows, held_symbols, risk_flags_by_symbol, signals>>
windowVars == <<closes, current_price, window, windowDone, windowSignal>>
clockVars == <<now>>
washVars == <<blocked, washFile, washCall, lastBlock>>
settleVars == <<pending, settleCall, recorded>>
trackerVars == <<mode, tradesFile, simTrades, holdings, cash, total_value, portfolioFile,
                 trackerCall, lastSim>>
execVars == <<order, execPc, preview, requests, outcome>>
cycleVars == <<cycle, cycleSignals, sigIdx, cyclePc, live_prices, cycleAllocations, sizing,
               orders, running, waited>>
scoreVars == <<fundamentals, scored>>

vars == <<sectorVars, signalVars, batchVars, windowVars, clockVars, washVars,
          settleVars, trackerVars, execVars, cycleVars, scoreVars>>

\* Optional values: None is the empty sequence, Some(x) the one-element one.
None == << >>
Some(x) == <<x>>
ValueOf(o) == o[1]

(***************************************************************************)
(* Idle values and frames of the components a specification does not use.  *)
(***************************************************************************)
SectorIdle == performances = None /\ alloc = None
SignalIdle == sigIn = None /\ sig = None
BatchIdle == /\ value_scores = None /\ windows = None
              /\ held_symbols = None /\ risk_flags_by_symbol = None
              /\ signals = None
WindowIdle == /\ closes = None /\ current_price = None
              /\ window = None /\ windowDone = FALSE /\ windowSignal = None
ClockIdle == now = 0
WashIdle == /\ blocked = None /\ washFile = None
              /\ washCall = None /\ lastBlock = None
SettleIdle == pending = None /\ settleCall = None /\ recorded = None
TrackerIdle == /\ mode = None /\ tradesFile = None /\ simTrades = None /\ holdings = None /\ cash = None
               /\ total_value = None /\ portfolioFile = None
               /\ trackerCall = None /\ lastSim = None
ExecIdle == /\ order = None /\ execPc = None /\ preview = None
            /\ requests = None /\ outcome = None
CycleIdle == /\ cycle = 0 /\ cycleSignals = None /\ sigIdx = 0 /\ cyclePc = None
             /\ live_prices = None /\ cycleAllocations = None /\ sizing = None
             /\ orders = None /\ running = FALSE /\ waited = 0
ScoreIdle == fundamentals = None /\ scored = None

IdleExcept(used) ==
    /\ IF "sector" \in used THEN TRUE ELSE SectorIdle
    /\ IF "signal" \in used THEN TRUE ELSE SignalIdle
    /\ IF "batch"  \in used THEN TRUE ELSE BatchIdle
    /\ IF "window" \in used THEN TRUE ELSE WindowIdle
    /\ IF "clock"  \in used THEN TRUE ELSE ClockIdle
    /\ IF "wash"   \in used THEN TRUE ELSE WashIdle
    /\ IF "settle" \in used THEN TRUE ELSE SettleIdle
    /\ IF "tracker" \in used THEN TRUE ELSE TrackerIdle
    /\ IF "exec"   \in used THEN TRUE ELSE ExecIdle
    /\ IF "cycle"  \in used THEN TRUE ELSE CycleIdle
    /\ IF "score"  \in used THEN TRUE ELSE ScoreIdle

FrameExcept(used) ==
    /\ IF "sector" \in used THEN TRUE ELSE UNCHANGED sectorVars
    /\ IF "signal" \in used THEN TRUE ELSE UNCHANGED signalVars
    /\ IF "batch"  \in used THEN TRUE ELSE UNCHANGED batchVars
    /\ IF "window" \in used THEN TRUE ELSE UNCHANGED windowVars
    /\ IF "clock"  \in used THEN TRUE ELSE UNCHANGED clockVars
    /\ IF "wash"   \in used THEN TRUE ELSE UNCHANGED washVars
    /\ IF "settle" \in used THEN TRUE ELSE UNCHANGED settleVars
    /\ IF "tracker" \in used THEN TRUE ELSE UNCHANGED trackerVars
    /\ IF "exec"   \in used THEN TRUE ELSE UNCHANGED execVars
    /\ IF "cycle"  \in used THEN TRUE ELSE UNCHANGED cycleVars
    /\ IF "score"  \in used THEN TRUE ELSE UNCHANGED scoreVars

(***************************************************************************)
(* Arithmetic helpers.                                                     *)
(***************************************************************************)
Min2(a, b) == IF a <= b THEN a ELSE b
Max2(a, b) == IF a >= b THEN a ELSE b

RECURSIVE SumOver(_, _)
\* sum(f.values()) over the keys in S
SumOver(f, S) ==
    IF S = {} THEN 0
    ELSE LET k == CHOOSE x \in S : TRUE IN f[k] + SumOver(f, S \ {k})

SumValues(f) == SumOver(f, DOMAIN f)

MinValue(f) == CHOOSE v \in {f[k] : k \in DOMAIN f} :
                   \A k \in DOMAIN f : v <= f[k]

(***************************************************************************)
(* universe.py                                                             *)
(***************************************************************************)
\* The universe is reduced to the first symbol of each sector list.
TECH == <<"AAPL">>
ENERGY == <<"XOM">>
MINERALS == <<"NEM">>

SECTORS == [Tech |-> TECH, Energy |-> ENERGY, Minerals |-> MINERALS]

ALL_SYMBOLS == TECH \o ENERGY \o MINERALS
Symbols == {ALL_SYMBOLS[i] : i \in 1..Len(ALL_SYMBOLS)}

SECTOR_NAMES == <<"Tech", "Energy", "Minerals">>
SectorSet == {SECTOR_NAMES[i] : i \in 1..Len(SECTOR_NAMES)}

\* SYMBOL_TO_SECTOR.get(symbol, default)
SymbolToSector(symbol, default) ==
    IF \E sec \in SectorSet : \E i \in 1..Len(SECTORS[sec]) : SECTORS[sec][i] = symbol
    THEN CHOOSE sec \in SectorSet :
             \E i \in 1..Len(SECTORS[sec]) : SECTORS[sec][i] = symbol
    ELSE default

\* every map with keys among S and values in V (a dict that may miss keys)
PartialMaps(S, V) == UNION {[D -> V] : D \in SUBSET S}

(***************************************************************************)
(* sector_rotation.py : compute_sector_allocations                         *)
(*                                                                         *)
(* A vector of fractions is [num |-> {sector: integer}, den |-> integer];  *)
(* the fraction of sector s is num[s] / den.                               *)
(***************************************************************************)
MaxPerf == 10                 \* returns range over -MaxPerf .. MaxPerf percent

SECTOR_MIN_ALLOCATION == 15   \* 0.15, in percent
SECTOR_MAX_ALLOCATION == 55   \* 0.55, in percent
SHIFT_EPSILON == 1            \* the 0.01 added in step 2, in percent

PerfValues == (-MaxPerf)..MaxPerf
PerfMaps == PartialMaps(SectorSet, PerfValues)

\* Normalise without dividing: the vector is returned as it came.
Normalise_Skipped(v) == v

\* {s: v / total for s, v in x.items()} with total = sum(x.values()):
\* (num[s]/den) / (sum(num)/den) = num[s] / sum(num)
Normalise(v) == [num |-> v.num, den |-> SumValues(v.num)]

\* max(SECTOR_MIN_ALLOCATION, min(SECTOR_MAX_ALLOCATION, alloc[s])) for all s,
\* over the common denominator 100 * den
Clamp(v) ==
    [num |-> [s \in DOMAIN v.num |->
                 Max2(SECTOR_MIN_ALLOCATION * v.den,
                      Min2(SECTOR_MAX_ALLOCATION * v.den, 100 * v.num[s]))],
     den |-> 100 * v.den]

\* the returns are not negated
compute_sector_allocations_NotInverted(perf) ==
    IF DOMAIN perf = {}
    THEN [num |-> [s \in SectorSet |-> 1], den |-> Len(SECTOR_NAMES)]
    ELSE LET min_val == MinValue(perf)
             shifted == [s \in DOMAIN perf |-> perf[s] - min_val + SHIFT_EPSILON]
         IN Normalise(Clamp(Normalise([num |-> shifted, den |-> 100])))

compute_sector_allocations(perf) ==
    IF DOMAIN perf = {}
    THEN \* equal weight fallback: 1.0 / n for every known sector
         [num |-> [s \in SectorSet |-> 1], den |-> Len(SECTOR_NAMES)]
    ELSE LET inverted == [s \in DOMAIN perf |-> -perf[s]]
             min_val  == MinValue(inverted)
             shifted  == [s \in DOMAIN perf |->
                             inverted[s] - min_val + SHIFT_EPSILON]
         IN Normalise(Clamp(Normalise([num |-> shifted, den |-> 100])))

SectorInit ==
    /\ performances \in PerfMaps
    /\ alloc = None

ComputeSectorAllocations ==
    /\ alloc = None
    /\ alloc' = Some(compute_sector_allocations(performances))
    /\ UNCHANGED performances

SectorNext == ComputeSectorAllocations /\ FrameExcept({"sector"})

InitSector == SectorInit /\ IdleExcept({"sector"})

SpecSector == InitSector /\ [][SectorNext]_vars

\* the fraction of sector s, compared without dividing
FractionAtLeast(v, s, pct) == 100 * v.num[s] >= pct * v.den
FractionAtMost(v, s, pct) == 100 * v.num[s] <= pct * v.den

\* C1: for every non-empty performance map, every returned fraction lies
\* within [SECTOR_MIN_ALLOCATION, SECTOR_MAX_ALLOCATION] = [0.15, 0.55].
C1_AllocationsWithinBand ==
    (alloc # None /\ DOMAIN performances # {}) =>
        \A s \in DOMAIN ValueOf(alloc).num :
            /\ FractionAtLeast(ValueOf(alloc), s, SECTOR_MIN_ALLOCATION)
            /\ FractionAtMost(ValueOf(alloc), s, SECTOR_MAX_ALLOCATION)

\* C2: for every performance map (the empty one and the all-tied one
\* included) the returned fractions are all strictly positive and sum to 1.
C2_AllocationsPositiveSumToOne ==
    alloc # None =>
        /\ ValueOf(alloc).den > 0
        /\ \A s \in DOMAIN ValueOf(alloc).num : ValueOf(alloc).num[s] > 0
        /\ SumValues(ValueOf(alloc).num) = ValueOf(alloc).den
        /\ DOMAIN ValueOf(alloc).num =
               (IF DOMAIN performances = {} THEN SectorSet
                ELSE DOMAIN performances)

AllTied(perf) == \A s, t \in DOMAIN perf : perf[s] = perf[t]

\* C2 witness: allocations were computed for a tied three-sector map
C2_Witness ==
    /\ alloc # None
    /\ DOMAIN performances = SectorSet
    /\ AllTied(performances)
    /\ \A s \in SectorSet : 3 * ValueOf(alloc).num[s] = ValueOf(alloc).den

(***************************************************************************)
(* trading_window.py                                                       *)
(*                                                                         *)
(* Prices are in cents.  A WindowResult is [center2, current_price,        *)
(* position]: center2 is twice the median (the median of an even number of *)
(* closes is a half-cent value), position is round(position, 4) in         *)
(* ten-thousandths.  The z-score and the volatility are not modelled: no   *)
(* decision reads them.                                                    *)
(***************************************************************************)
WINDOW_LOOKBACK_DAYS == 60
MIN_CLOSES == 10   \* fewer closes than this give no window
WINDOW_HALF_WIDTH == 5    \* 0.05, in percent
STRONG_BUY_THRESHOLD == 20   \* 0.20, in percent
BUY_THRESHOLD == 35   \* 0.35, in percent
SELL_THRESHOLD == 65   \* 0.65, in percent
STRONG_SELL_THRESHOLD == 80   \* 0.80, in percent

STRONG_BUY == "STRONG_BUY"
BUY == "BUY"
HOLD == "HOLD"
SELL == "SELL"
STRONG_SELL == "STRONG_SELL"
Zones == {STRONG_BUY, BUY, HOLD, SELL, STRONG_SELL}

MaxHist == 10                 \* longest price history
MaxPosDelta == 1              \* positions sampled this close to a threshold

\* round(n / d, 0) for d > 0, ties to the even neighbour (Python's round)
RoundHalfEven(n, d) ==
    LET q == n \div d
        r == n - q * d
    IN IF 2 * r < d THEN q
       ELSE IF 2 * r > d THEN q + 1
       ELSE IF q % 2 = 0 THEN q ELSE q + 1

\* series.iloc[-n:]
LastN(seq, n) ==
    IF Len(seq) <= n THEN seq ELSE SubSeq(seq, Len(seq) - n + 1, Len(seq))

RECURSIVE InsertAscending(_, _)
InsertAscending(sorted, x) ==
    IF sorted = << >> THEN <<x>>
    ELSE IF x <= Head(sorted) THEN <<x>> \o sorted
    ELSE <<Head(sorted)>> \o InsertAscending(Tail(sorted), x)

RECURSIVE SortAscending(_)
SortAscending(seq) ==
    IF seq = << >> THEN << >>
    ELSE InsertAscending(SortAscending(Tail(seq)), Head(seq))

\* 2 * np.median(values): the middle value, or the mean of the two middle ones
Median2(values) ==
    LET sorted == SortAscending(values)
        n == Len(sorted)
    IN IF n % 2 = 1 THEN 2 * sorted[(n + 1) \div 2]
       ELSE sorted[n \div 2] + sorted[n \div 2 + 1]

\* position = (current_price - lower) / (upper - lower), rounded to 4 places,
\* with upper = center * (1 + h), lower = center * (1 - h), center = center2/2:
\*   (price - center2*(100-h)/200) / (center2*2h/200)
\*     = (200*price - (100-h)*center2) / (2h*center2)
\* In ten-thousandths the factor 10000 / 2h is taken first (2h divides 10000).
Position(center2, price) ==
    IF 2 * WINDOW_HALF_WIDTH * center2 > 0      \* window_width > 0
    THEN RoundHalfEven(
             (10000 \div (2 * WINDOW_HALF_WIDTH))
                 * (200 * price - (100 - WINDOW_HALF_WIDTH) * center2),
             center2)
    ELSE 5000

compute_trading_window(historical, price, lookback) ==
    IF historical = None \/ Len(ValueOf(historical)) < MIN_CLOSES THEN None
    ELSE LET cl == LastN(ValueOf(historical), lookback)
         IN IF Len(cl) < MIN_CLOSES THEN None
            ELSE LET center2 == Median2(cl)
                     cur == IF price = None THEN cl[Len(cl)] ELSE ValueOf(price)
                 IN Some([center2 |-> center2,
                          current_price |-> cur,
                          position |-> Position(center2, cur)])

\* the windowSignal boundaries compared the other way round (<= for <, >= for >)
get_window_signal_Inclusive(w) ==
    IF w = None THEN HOLD
    ELSE LET p == ValueOf(w).position
         IN IF p <= STRONG_BUY_THRESHOLD * 100 THEN STRONG_BUY
            ELSE IF p <= BUY_THRESHOLD * 100 THEN BUY
            ELSE IF p >= STRONG_SELL_THRESHOLD * 100 THEN STRONG_SELL
            ELSE IF p >= SELL_THRESHOLD * 100 THEN SELL
            ELSE HOLD

get_window_signal(w) ==
    IF w = None THEN HOLD
    ELSE LET p == ValueOf(w).position
         IN IF p < STRONG_BUY_THRESHOLD * 100 THEN STRONG_BUY
            ELSE IF p < BUY_THRESHOLD * 100 THEN BUY
            ELSE IF p > STRONG_SELL_THRESHOLD * 100 THEN STRONG_SELL
            ELSE IF p > SELL_THRESHOLD * 100 THEN SELL
            ELSE HOLD

(***************************************************************************)
(* value_scorer.py : passes_fundamental_gate                               *)
(***************************************************************************)
FUNDAMENTAL_GATE_THRESHOLD == 40

passes_fundamental_gate(score) == score >= FUNDAMENTAL_GATE_THRESHOLD * 100

(***************************************************************************)
(* signal_generator.py : generate_signal                                   *)
(*                                                                         *)
(* Scores are in hundredths, priorities in thousandths, so that            *)
(* priority = 60 + value_score / 10 is 60000 + value_score.  The reason    *)
(* string is modelled by its fixed leading text.                           *)
(***************************************************************************)
BUY_SCORE_THRESHOLD == 60
STRONG_BUY_SCORE_THRESHOLD == 70
SELL_SCORE_THRESHOLD == 50
COLLAPSE_SCORE_THRESHOLD == 30

ACTION_BUY == "BUY"
ACTION_STRONG_BUY == "STRONG_BUY"
ACTION_SELL == "SELL"
ACTION_HOLD == "HOLD"

MaxScoreDelta == 1            \* scores sampled this close to a threshold

Signal(symbol, action, reason, priority, value_score, window_signal, sector) ==
    [symbol |-> symbol, action |-> action, reason |-> reason,
     priority |-> priority, value_score |-> value_score,
     window_signal |-> window_signal, sector |-> sector]

RiskFlags(wash_sale_blocked, max_positions_reached) ==
    [wash_sale_blocked |-> wash_sale_blocked,
     max_positions_reached |-> max_positions_reached]

\* the sell-windowSignal rule tried before the collapse rule
HeldRules_ZoneFirst(symbol, value_score, w_signal, sector) ==
    IF w_signal \in {SELL, STRONG_SELL} /\ value_score < SELL_SCORE_THRESHOLD * 100
    THEN Some(Signal(symbol, ACTION_SELL, "Sell windowSignal + weak value", 80000,
                     value_score, w_signal, sector))
    ELSE IF value_score < COLLAPSE_SCORE_THRESHOLD * 100
    THEN Some(Signal(symbol, ACTION_SELL, "Fundamentals collapsed", 90000,
                     value_score, w_signal, sector))
    ELSE IF w_signal = STRONG_SELL
    THEN Some(Signal(symbol, ACTION_SELL, "Strong sell windowSignal", 70000,
                     value_score, w_signal, sector))
    ELSE None

\* the body of `if is_held:`; None when no return statement is reached
HeldRules(symbol, value_score, w_signal, sector) ==
    IF value_score < COLLAPSE_SCORE_THRESHOLD * 100
    THEN Some(Signal(symbol, ACTION_SELL, "Fundamentals collapsed", 90000,
                     value_score, w_signal, sector))
    ELSE IF w_signal \in {SELL, STRONG_SELL} /\ value_score < SELL_SCORE_THRESHOLD * 100
    THEN Some(Signal(symbol, ACTION_SELL, "Sell windowSignal + weak value", 80000,
                     value_score, w_signal, sector))
    ELSE IF w_signal = STRONG_SELL
    THEN Some(Signal(symbol, ACTION_SELL, "Strong sell windowSignal", 70000,
                     value_score, w_signal, sector))
    ELSE None

\* the body of `if not is_held:`; None when no return statement is reached
BuyRules(symbol, value_score, w_signal, sector, risk_flags) ==
    IF ~passes_fundamental_gate(value_score)
    THEN Some(Signal(symbol, ACTION_HOLD, "Below fundamental gate", 0,
                     value_score, w_signal, sector))
    ELSE IF risk_flags.wash_sale_blocked
    THEN Some(Signal(symbol, ACTION_HOLD, "Wash sale blocked", 0,
                     value_score, w_signal, sector))
    ELSE IF risk_flags.max_positions_reached
    THEN Some(Signal(symbol, ACTION_HOLD, "Max positions reached", 0,
                     value_score, w_signal, sector))
    ELSE IF value_score >= STRONG_BUY_SCORE_THRESHOLD * 100 /\ w_signal = STRONG_BUY
    THEN Some(Signal(symbol, ACTION_STRONG_BUY, "Strong buy", 100000,
                     value_score, w_signal, sector))
    ELSE IF value_score >= BUY_SCORE_THRESHOLD * 100 /\ w_signal \in {BUY, STRONG_BUY}
    THEN Some(Signal(symbol, ACTION_BUY, "Buy", 60000 + value_score,
                     value_score, w_signal, sector))
    ELSE None

\* the buy rules tried whether or not the symbol is held
generate_signal_BuyWhenHeld(symbol, value_score, w, sector_allocation, is_held, risk_flags) ==
    LET sector   == SymbolToSector(symbol, "Unknown")
        w_signal == get_window_signal(w)
        held     == IF is_held THEN HeldRules(symbol, value_score, w_signal, sector)
                    ELSE None
        buy      == BuyRules(symbol, value_score, w_signal, sector, risk_flags)
    IN IF held # None THEN ValueOf(held)
       ELSE IF buy # None THEN ValueOf(buy)
       ELSE Signal(symbol, ACTION_HOLD, "Hold", 0, value_score, w_signal, sector)

generate_signal(symbol, value_score, w, sector_allocation, is_held, risk_flags) ==
    LET sector   == SymbolToSector(symbol, "Unknown")
        w_signal == get_window_signal(w)
        held     == IF is_held THEN HeldRules(symbol, value_score, w_signal, sector)
                    ELSE None
        buy      == IF ~is_held
                    THEN BuyRules(symbol, value_score, w_signal, sector, risk_flags)
                    ELSE None
    IN IF held # None THEN ValueOf(held)
       ELSE IF buy # None THEN ValueOf(buy)
       ELSE Signal(symbol, ACTION_HOLD, "Hold", 0, value_score, w_signal, sector)

ThresholdsNear(thresholds, scale, delta) ==
    {t * scale + d : t \in thresholds, d \in (-delta)..delta}

ScoreValues ==
    {0, 10000} \cup
    ThresholdsNear({COLLAPSE_SCORE_THRESHOLD, FUNDAMENTAL_GATE_THRESHOLD,
                    SELL_SCORE_THRESHOLD, BUY_SCORE_THRESHOLD,
                    STRONG_BUY_SCORE_THRESHOLD}, 100, MaxScoreDelta)

PositionValues ==
    {-4000, 5000, 12000} \cup
    ThresholdsNear({STRONG_BUY_THRESHOLD, BUY_THRESHOLD, SELL_THRESHOLD,
                    STRONG_SELL_THRESHOLD}, 100, MaxPosDelta)

\* a WindowResult as generate_signal reads it: only the position matters
WindowAt(p) == Some([center2 |-> 20000, current_price |-> 10000, position |-> p])

AllRiskFlags == {RiskFlags(b, m) : b \in BOOLEAN, m \in BOOLEAN}

SignalInit ==
    /\ sigIn \in [symbol : {ALL_SYMBOLS[1]},
                  value_score : ScoreValues,
                  window : {None} \cup {WindowAt(p) : p \in PositionValues},
                  sector_allocation : {<<1, 3>>},
                  is_held : BOOLEAN,
                  risk_flags : AllRiskFlags]
    /\ sig = None

GenerateSignal ==
    /\ sig = None
    /\ sig' = Some(generate_signal(sigIn.symbol, sigIn.value_score, sigIn.window,
                                   sigIn.sector_allocation, sigIn.is_held,
                                   sigIn.risk_flags))
    /\ UNCHANGED sigIn

SignalNext == GenerateSignal /\ FrameExcept({"signal"})

InitSignal == SignalInit /\ IdleExcept({"signal"})

SpecSignal == InitSignal /\ [][SignalNext]_vars

\* The nine-rule list of the specification, first match wins, as
\* <<action, priority>> of (score, windowSignal, held, wash-sale-blocked, max-positions).
NineRules(score, zone, held, washBlocked, maxPositions) ==
    IF held /\ score < 3000 THEN <<"SELL", 90000>>
    ELSE IF held /\ zone \in {"SELL", "STRONG_SELL"} /\ score < 5000
    THEN <<"SELL", 80000>>
    ELSE IF held /\ zone = "STRONG_SELL" THEN <<"SELL", 70000>>
    ELSE IF ~held /\ score < 4000 THEN <<"HOLD", 0>>
    ELSE IF ~held /\ washBlocked THEN <<"HOLD", 0>>
    ELSE IF ~held /\ maxPositions THEN <<"HOLD", 0>>
    ELSE IF ~held /\ score >= 7000 /\ zone = "STRONG_BUY"
    THEN <<"STRONG_BUY", 100000>>
    ELSE IF ~held /\ score >= 6000 /\ zone \in {"BUY", "STRONG_BUY"}
    THEN <<"BUY", 60000 + score>>
    ELSE <<"HOLD", 0>>

\* C3: for every score, windowSignal (a missing window included), held flag and
\* pair of risk flags, generate_signal returns the action and the priority
\* of the first matching rule of the nine-rule list.
C3_SignalFollowsNineRules ==
    sig # None =>
        <<ValueOf(sig).action, ValueOf(sig).priority>> =
            NineRules(sigIn.value_score, ValueOf(sig).window_signal,
                      sigIn.is_held, sigIn.risk_flags.wash_sale_blocked,
                      sigIn.risk_flags.max_positions_reached)

\* C3 witness: a BUY was returned for a symbol in the STRONG_BUY windowSignal whose
\* score is below the strong-buy threshold (rule 7 skipped, rule 8 taken)
C3_Witness ==
    /\ sig # None
    /\ ~sigIn.is_held
    /\ sigIn.value_score = 6999
    /\ ValueOf(sig).window_signal = STRONG_BUY
    /\ ValueOf(sig).action = ACTION_BUY
    /\ ValueOf(sig).priority = 66999

\* C4: a held symbol whose score is below the collapse threshold gets SELL
\* with priority 90 and the collapse reason, whatever the window windowSignal
\* (a missing window included) and whatever the risk flags.
C4_CollapseSellsRegardless ==
    (sig # None /\ sigIn.is_held /\ sigIn.value_score < 3000) =>
        /\ ValueOf(sig).action = ACTION_SELL
        /\ ValueOf(sig).priority = 90000
        /\ ValueOf(sig).reason = "Fundamentals collapsed"

\* C4 witness: the collapse SELL was returned for a held symbol inside the
\* sell windowSignal with both risk flags raised
C4_Witness ==
    /\ sig # None
    /\ sigIn.is_held
    /\ sigIn.value_score = 2999
    /\ ValueOf(sig).window_signal = STRONG_SELL
    /\ sigIn.risk_flags = RiskFlags(TRUE, TRUE)
    /\ ValueOf(sig).reason = "Fundamentals collapsed"

\* C5: generate_signal never returns BUY or STRONG_BUY for a held symbol
\* and never returns SELL for a symbol that is not held.
C5_HeldAndBuyRulesExclusive ==
    sig # None =>
        /\ sigIn.is_held =>
               ValueOf(sig).action \notin {ACTION_BUY, ACTION_STRONG_BUY}
        /\ ~sigIn.is_held => ValueOf(sig).action # ACTION_SELL

\* C5 witness: a held symbol with a strong-buy score in the STRONG_BUY windowSignal
\* and no risk flag was left at HOLD
C5_Witness ==
    /\ sig # None
    /\ sigIn.is_held
    /\ sigIn.value_score >= 7000
    /\ ValueOf(sig).window_signal = STRONG_BUY
    /\ sigIn.risk_flags = RiskFlags(FALSE, FALSE)
    /\ ValueOf(sig).action = ACTION_HOLD

(***************************************************************************)
(* signal_generator.py : generate_all_signals                              *)
(***************************************************************************)
DEFAULT_SCORE == 50           \* value_scores.get(sym, 50.0)

\* dict.get(key, default)
Get(dict, key, default) == IF key \in DOMAIN dict THEN dict[key] ELSE default

RECURSIVE InsertByPriority(_, _)
\* x goes behind every element whose priority is not lower than its own
InsertByPriority(sorted, x) ==
    IF sorted = << >> THEN <<x>>
    ELSE IF Head(sorted).priority >= x.priority
    THEN <<Head(sorted)>> \o InsertByPriority(Tail(sorted), x)
    ELSE <<x>> \o sorted

RECURSIVE SortFrom(_, _)
SortFrom(sorted, rest) ==
    IF rest = << >> THEN sorted
    ELSE SortFrom(InsertByPriority(sorted, Head(rest)), Tail(rest))

\* the list left in the order the loop appended
SortByPriorityDescending_Unsorted(list) == list

\* list.sort(key=lambda s: s.priority, reverse=True): stable, highest first
SortByPriorityDescending(list) == SortFrom(<< >>, list)

RECURSIVE SignalsFrom(_, _, _, _, _, _)
\* the loop over ALL_SYMBOLS from index i on; HOLD signals are not appended
SignalsFrom(i, scores, wins, allocations, held, flags) ==
    IF i > Len(ALL_SYMBOLS) THEN << >>
    ELSE LET sym     == ALL_SYMBOLS[i]
             score   == Get(scores, sym, DEFAULT_SCORE * 100)
             w       == Get(wins, sym, None)
             sector  == SymbolToSector(sym, "Unknown")
             al      == Get(allocations, sector, <<33, 100>>)
             is_held == sym \in held
             fl      == Get(flags, sym, RiskFlags(FALSE, FALSE))
             signal  == generate_signal(sym, score, w, al, is_held, fl)
             rest    == SignalsFrom(i + 1, scores, wins, allocations, held, flags)
         IN IF signal.action # ACTION_HOLD THEN <<signal>> \o rest ELSE rest

generate_all_signals(scores, wins, allocations, held, flags) ==
    SortByPriorityDescending(SignalsFrom(1, scores, wins, allocations, held, flags))

\* inputs of the batch: a collapsed, a buy and a strong-buy score; a window
\* in the strong-buy and the strong-sell windowSignal; symbols may miss in each dict
BatchScores == {2500, 6500, 7500}
BatchPositions == {1000, 9000}

\* the flags as run() builds them: one max-positions value for all symbols
BatchFlagMaps ==
    {<< >>} \cup
    {[s \in Symbols |-> RiskFlags(s \in W, m)] : W \in SUBSET Symbols, m \in BOOLEAN}

EqualAllocations == [s \in SectorSet |-> <<1, Len(SECTOR_NAMES)>>]

BatchInit ==
    /\ value_scores \in PartialMaps(Symbols, BatchScores)
    /\ windows \in PartialMaps(Symbols, {WindowAt(p) : p \in BatchPositions})
    /\ held_symbols \in SUBSET Symbols
    /\ risk_flags_by_symbol \in BatchFlagMaps
    /\ signals = None

GenerateAllSignals ==
    /\ signals = None
    /\ signals' = Some(generate_all_signals(value_scores, windows, EqualAllocations,
                                            held_symbols, risk_flags_by_symbol))
    /\ UNCHANGED <<value_scores, windows, held_symbols, risk_flags_by_symbol>>

BatchNext == GenerateAllSignals /\ FrameExcept({"batch"})

InitBatch == BatchInit /\ IdleExcept({"batch"})

SpecBatch == InitBatch /\ [][BatchNext]_vars

\* position of a symbol in ALL_SYMBOLS
SymbolIndex(sym) == CHOOSE i \in 1..Len(ALL_SYMBOLS) : ALL_SYMBOLS[i] = sym

\* C6: generate_all_signals returns only non-HOLD signals, at most one per
\* symbol of the universe, ordered by priority descending, and signals of
\* equal priority keep the relative order of the input symbol list.
C6_BatchSortedStableNoHold ==
    signals # None =>
        LET out == ValueOf(signals) IN
        /\ \A i \in 1..Len(out) :
               /\ out[i].action # ACTION_HOLD
               /\ out[i].symbol \in Symbols
        /\ \A i, j \in 1..Len(out) : i # j => out[i].symbol # out[j].symbol
        /\ \A i, j \in 1..Len(out) :
               i < j =>
                   \/ out[i].priority > out[j].priority
                   \/ /\ out[i].priority = out[j].priority
                      /\ SymbolIndex(out[i].symbol) < SymbolIndex(out[j].symbol)

\* C6 witness: three signals came back, a strong buy in front of two sells
\* of equal priority that kept the order of the symbol list
C6_Witness ==
    /\ signals # None
    /\ Len(ValueOf(signals)) = 3
    /\ ValueOf(signals)[1].action = ACTION_STRONG_BUY
    /\ ValueOf(signals)[1].symbol = ALL_SYMBOLS[3]
    /\ ValueOf(signals)[2].priority = ValueOf(signals)[3].priority
    /\ ValueOf(signals)[2].symbol = ALL_SYMBOLS[1]
    /\ ValueOf(signals)[3].symbol = ALL_SYMBOLS[2]

(***************************************************************************)
(* trading_window.py : one compute_trading_window call followed by         *)
(* get_window_signal on its result                                         *)
(***************************************************************************)
CloseValues == {0, 10000}

\* live prices: far below, inside and far above a window centred at 100.00,
\* and the prices next to each windowSignal boundary of that window
PriceValues ==
    {9100, 10000, 12000} \cup
    {9500 + 10 * t + d :
        t \in {STRONG_BUY_THRESHOLD, BUY_THRESHOLD, SELL_THRESHOLD,
               STRONG_SELL_THRESHOLD},
        d \in (-MaxPosDelta)..MaxPosDelta}

Histories ==
    UNION {[1..n -> CloseValues] : n \in (MIN_CLOSES - 1)..MaxHist}

WindowInit ==
    /\ closes \in {None} \cup {Some(h) : h \in Histories}
    /\ current_price \in {None} \cup {Some(p) : p \in PriceValues}
    /\ window = None
    /\ windowDone = FALSE
    /\ windowSignal = None

ComputeTradingWindow ==
    /\ ~windowDone
    /\ window' = compute_trading_window(closes, current_price, WINDOW_LOOKBACK_DAYS)
    /\ windowDone' = TRUE
    /\ UNCHANGED <<closes, current_price, windowSignal>>
    /\ FrameExcept({"window"})

GetWindowSignal ==
    /\ windowDone
    /\ windowSignal = None
    /\ windowSignal' = Some(get_window_signal(window))
    /\ UNCHANGED <<closes, current_price, window, windowDone>>
    /\ FrameExcept({"window"})

WindowNext ==
    \/ ComputeTradingWindow
    \/ GetWindowSignal

InitWindow == WindowInit /\ IdleExcept({"window"})

SpecWindow == InitWindow /\ [][WindowNext]_vars

\* C7: every window position maps to exactly one windowSignal: position < 0.20 is
\* STRONG_BUY (negative positions included: median 100, half-width 5%,
\* price 91 gives position -0.4), 0.20 <= position < 0.35 is BUY,
\* position > 0.80 is STRONG_SELL, 0.65 < position <= 0.80 is SELL,
\* 0.35 <= position <= 0.65 is HOLD; a missing window is HOLD.
C7_ZonesTotalAndExclusive ==
    windowSignal # None =>
        LET z == ValueOf(windowSignal) IN
        /\ z \in {"STRONG_BUY", "BUY", "HOLD", "SELL", "STRONG_SELL"}
        /\ window = None => z = "HOLD"
        /\ window # None =>
               LET p == ValueOf(window).position IN
               /\ (p < 2000) <=> (z = "STRONG_BUY")
               /\ (2000 <= p /\ p < 3500) <=> (z = "BUY")
               /\ (p > 8000) <=> (z = "STRONG_SELL")
               /\ (6500 < p /\ p <= 8000) <=> (z = "SELL")
               /\ (3500 <= p /\ p <= 6500) <=> (z = "HOLD")
               /\ (ValueOf(window).center2 = 2 * 10000
                   /\ ValueOf(window).current_price = 9100) => p = -4000

\* C7 witness: median 100.00, live price 91.00, position -0.4, STRONG_BUY
C7_Witness ==
    /\ windowSignal = Some(STRONG_BUY)
    /\ window # None
    /\ ValueOf(window).center2 = 2 * 10000
    /\ ValueOf(window).current_price = 9100
    /\ ValueOf(window).position = -4000

(***************************************************************************)
(* risk_manager.py : WashSaleTracker                                       *)
(*                                                                         *)
(* datetime.utcnow() is the variable now, in ticks.  isoformat() keeps the *)
(* full precision of the timestamp, so the string of time t is the tagged  *)
(* value <<"iso", t>> and fromisoformat reads t back.  Losses are in cents.*)
(* The wash-sale file is [state, content]: absent, corrupt, or ok with the *)
(* dumped dict as content.                                                 *)
(***************************************************************************)
WASH_SALE_LOSS_THRESHOLD == 100   \* dollars
WASH_SALE_BLOCK_DAYS == 30

TicksPerDay == 2              \* clock resolution
MaxNow == 62                  \* the clock stops here
MaxLoadedExpiry == 3          \* latest expiry found in the file at start-up
MaxLossDelta == 1             \* losses sampled this close to the threshold

\* timedelta(days=n)
Days(n) == n * TicksPerDay

isoformat(t) == <<"iso", t>>
fromisoformat(str) == str[2]

WashSymbols == {ALL_SYMBOLS[1], ALL_SYMBOLS[2]}

LossValues ==
    {-5000} \cup ThresholdsNear({WASH_SALE_LOSS_THRESHOLD}, 100, MaxLossDelta)

AbsentFile == [state |-> "absent",  content |-> << >>]
CorruptFile == [state |-> "corrupt", content |-> << >>]
FileWith(content) == [state |-> "ok", content |-> content]

\* WashSaleTracker._load: the dict of the file, {} when the file is missing
\* or does not parse
WashLoad(file) == IF file.state = "ok" THEN file.content ELSE << >>

\* the test of record_sale with > for >=
BlocksSale_Strict(loss) == loss > WASH_SALE_LOSS_THRESHOLD * 100

\* record_sale: loss >= WASH_SALE_LOSS_THRESHOLD
BlocksSale(loss) == loss >= WASH_SALE_LOSS_THRESHOLD * 100

\* dict with d[key] = value
Put(dict, key, value) ==
    [k \in DOMAIN dict \cup {key} |-> IF k = key THEN value ELSE dict[k]]

\* nothing is ever expired
Expired_Never(dict, t) == {}

\* _purge_expired: the symbols whose expiry is at or before now
Expired(dict, t) == {s \in DOMAIN dict : fromisoformat(dict[s]) <= t}

\* dict without the keys in gone
Without(dict, gone) == [k \in DOMAIN dict \ gone |-> dict[k]]

NoCall == [op |-> "none", symbol |-> "", loss |-> 0, result |-> FALSE,
           listed |-> {}, saved |-> FALSE]

WashInit ==
    /\ now = 0
    /\ washFile \in {AbsentFile, CorruptFile} \cup
           {FileWith(c) :
               c \in PartialMaps(WashSymbols,
                                 {isoformat(t) : t \in 1..MaxLoadedExpiry})}
    /\ blocked = WashLoad(washFile)
    /\ washCall = NoCall
    \* an entry found in the file was written by a blocking sale
    \* WASH_SALE_BLOCK_DAYS before its expiry
    /\ lastBlock = [s \in WashSymbols |->
                       IF s \in DOMAIN blocked
                       THEN Some(fromisoformat(blocked[s]) - Days(WASH_SALE_BLOCK_DAYS))
                       ELSE None]

\* time passes between two calls
WashTick ==
    /\ now < MaxNow
    /\ now' = now + 1
    /\ washCall' = NoCall
    /\ UNCHANGED <<blocked, washFile, lastBlock>>
    /\ FrameExcept({"clock", "wash"})

RecordSale(symbol, loss) ==
    /\ IF BlocksSale(loss)
       THEN /\ blocked' = Put(blocked, symbol,
                              isoformat(now + Days(WASH_SALE_BLOCK_DAYS)))
            /\ washFile' = FileWith(blocked')
            /\ lastBlock' = [lastBlock EXCEPT ![symbol] = Some(now)]
       ELSE UNCHANGED <<blocked, washFile, lastBlock>>
    /\ washCall' = [op |-> "record_sale", symbol |-> symbol, loss |-> loss,
                    result |-> FALSE, listed |-> {}, saved |-> BlocksSale(loss)]
    /\ UNCHANGED now
    /\ FrameExcept({"clock", "wash"})

\* _purge_expired followed by `symbol in self.blocked`
IsBlocked(symbol) ==
    LET expired == Expired(blocked, now) IN
    /\ blocked' = Without(blocked, expired)
    /\ washFile' = IF expired # {} THEN FileWith(blocked') ELSE washFile
    /\ washCall' = [op |-> "is_blocked", symbol |-> symbol, loss |-> 0,
                    result |-> symbol \in DOMAIN blocked', listed |-> {},
                    saved |-> expired # {}]
    /\ UNCHANGED <<now, lastBlock>>
    /\ FrameExcept({"clock", "wash"})

\* _purge_expired followed by list(self.blocked.keys())
GetBlockedSymbols ==
    LET expired == Expired(blocked, now) IN
    /\ blocked' = Without(blocked, expired)
    /\ washFile' = IF expired # {} THEN FileWith(blocked') ELSE washFile
    /\ washCall' = [op |-> "get_blocked_symbols", symbol |-> "", loss |-> 0,
                    result |-> FALSE, listed |-> DOMAIN blocked',
                    saved |-> expired # {}]
    /\ UNCHANGED <<now, lastBlock>>
    /\ FrameExcept({"clock", "wash"})

RecordSaleAny == \E s \in WashSymbols, loss \in LossValues : RecordSale(s, loss)
IsBlockedAny == \E s \in WashSymbols : IsBlocked(s)

WashNext ==
    \/ WashTick
    \/ RecordSaleAny
    \/ IsBlockedAny
    \/ GetBlockedSymbols

InitWash == WashInit /\ IdleExcept({"clock", "wash"})

SpecWash == InitWash /\ [][WashNext]_vars

\* the expiry recorded for symbol s in dict, as a time
ExpiryOf(dict, s) == fromisoformat(dict[s])

\* C8: record_sale creates or overwrites the block of the symbol if and
\* only if the loss is at or above the threshold of 100.00 (a loss exactly
\* at the threshold blocks, one cent below does not, gains never block);
\* when it does not block, the blocked symbols and their expiries are
\* unchanged.
C8_RecordSaleBlocksIffAtThreshold ==
    [][washCall'.op = "record_sale" =>
          LET s == washCall'.symbol IN
          IF washCall'.loss >= 10000
          THEN /\ s \in DOMAIN blocked'
               /\ ExpiryOf(blocked', s) = now + 30 * TicksPerDay
               /\ \A o \in WashSymbols \ {s} :
                      /\ o \in DOMAIN blocked' <=> o \in DOMAIN blocked
                      /\ o \in DOMAIN blocked =>
                             ExpiryOf(blocked', o) = ExpiryOf(blocked, o)
          ELSE blocked' = blocked]_vars

\* C8 witness: a sale with a loss of exactly 100.00 overwrote an older block
\* of the symbol while a sale of the other symbol one cent below did not block
C8_Witness ==
    /\ washCall.op = "record_sale"
    /\ washCall.loss = 9999
    /\ washCall.symbol = ALL_SYMBOLS[2]
    /\ ALL_SYMBOLS[2] \notin DOMAIN blocked
    /\ ALL_SYMBOLS[1] \in DOMAIN blocked
    /\ lastBlock[ALL_SYMBOLS[1]] = Some(now)
    /\ ExpiryOf(blocked, ALL_SYMBOLS[1]) = now + Days(WASH_SALE_BLOCK_DAYS)
    /\ now > 0

Queries == {"is_blocked", "get_blocked_symbols"}

\* is_blocked answered as the last blocking sale of the symbol demands
AnswerFollowsLastSale ==
    washCall.op = "is_blocked" =>
        LET last == lastBlock[washCall.symbol] IN
        washCall.result = (last # None /\ now < ValueOf(last) + 30 * TicksPerDay)

\* after a query no expired entry is left in the tracker
NoExpiredEntryAfterQuery ==
    washCall.op \in Queries => \A s \in DOMAIN blocked : ExpiryOf(blocked, s) > now

\* a query that saved the file removed an entry
QuerySavesOnlyAfterRemoval ==
    (washCall'.op \in Queries /\ washCall'.saved) =>
        /\ DOMAIN blocked' # DOMAIN blocked
        /\ washFile' = FileWith(blocked')

\* C9: after a blocking record_sale at time t, is_blocked answers true at
\* every query time before t + 30 days and false once the expiry has passed
\* (absent a newer blocking sale); an expired entry is removed by the first
\* query after its expiry, and a query persists the tracker only when it
\* removed something.
C9_BlockExpiresAndPurgesLazily ==
    /\ [](AnswerFollowsLastSale /\ NoExpiredEntryAfterQuery)
    /\ [][QuerySavesOnlyAfterRemoval]_vars

\* C9 witness: a sale made since start-up blocked the first symbol, the
\* block ran its 30 days, and is_blocked then answered false, purging and
\* saving, while the block of the other symbol stays
C9_Witness ==
    /\ washCall.op = "is_blocked"
    /\ washCall.symbol = ALL_SYMBOLS[1]
    /\ washCall.result = FALSE
    /\ washCall.saved
    /\ lastBlock[ALL_SYMBOLS[1]] # None
    /\ ValueOf(lastBlock[ALL_SYMBOLS[1]]) >= 0
    /\ now >= ValueOf(lastBlock[ALL_SYMBOLS[1]]) + Days(WASH_SALE_BLOCK_DAYS)
    /\ ALL_SYMBOLS[2] \in DOMAIN blocked

\* a block made since start-up is still answered true on its last tick
C9_WitnessStillBlocked ==
    /\ washCall.op = "is_blocked"
    /\ washCall.result = TRUE
    /\ lastBlock[washCall.symbol] # None
    /\ ValueOf(lastBlock[washCall.symbol]) >= 0
    /\ now = ValueOf(lastBlock[washCall.symbol]) + Days(WASH_SALE_BLOCK_DAYS) - 1

(***************************************************************************)
(* risk_manager.py : SettlementTracker                                     *)
(*                                                                         *)
(* strftime("%Y-%m-%d") keeps the calendar day of a timestamp and drops    *)
(* the time of day: the date string of time t is the day number            *)
(* t \div TicksPerDay, and the string comparison of two ISO dates is the   *)
(* comparison of their day numbers.  Amounts are in cents.                 *)
(***************************************************************************)
MaxSettleNow == 6             \* the clock of the settlement runs stops here
MaxRecords == 3               \* record_sale_proceeds calls in one run

ProceedsValues == {1000, 2500}

strftime_date(t) == t \div TicksPerDay

\* the proceeds booked under the day of the sale itself
SettleDate_Today(t) == strftime_date(t)

\* record_sale_proceeds: (utcnow() + timedelta(days=1)).strftime("%Y-%m-%d")
SettleDate(t) == strftime_date(t + Days(1))

\* get_unavailable_cash: the dates still pending on day today
StillPending(dict, today) == {d \in DOMAIN dict : d > today}

NoSettleCall == [op |-> "none", amount |-> 0, result |-> 0]

SettleInit ==
    /\ now \in 0..(TicksPerDay - 1)
    /\ pending = << >>
    /\ settleCall = NoSettleCall
    /\ recorded = << >>

SettleTick ==
    /\ now < MaxSettleNow
    /\ now' = now + 1
    /\ settleCall' = NoSettleCall
    /\ UNCHANGED <<pending, recorded>>
    /\ FrameExcept({"clock", "settle"})

RecordSaleProceeds(amount) ==
    /\ Len(recorded) < MaxRecords
    /\ LET settle_date == SettleDate(now)
       IN pending' = Put(pending, settle_date, Get(pending, settle_date, 0) + amount)
    /\ settleCall' = [op |-> "record_sale_proceeds", amount |-> amount, result |-> 0]
    /\ recorded' = Append(recorded, [day |-> strftime_date(now), amount |-> amount])
    /\ UNCHANGED now
    /\ FrameExcept({"clock", "settle"})

GetUnavailableCash ==
    LET today == strftime_date(now)
        keep  == StillPending(pending, today)
    IN /\ settleCall' = [op |-> "get_unavailable_cash", amount |-> 0,
                         result |-> SumOver(pending, keep)]
       /\ pending' = Without(pending, DOMAIN pending \ keep)
       /\ UNCHANGED <<now, recorded>>
       /\ FrameExcept({"clock", "settle"})

RecordSaleProceedsAny == \E amount \in ProceedsValues : RecordSaleProceeds(amount)

SettleNext ==
    \/ SettleTick
    \/ RecordSaleProceedsAny
    \/ GetUnavailableCash

InitSettle == SettleInit /\ IdleExcept({"clock", "settle"})

SpecSettle == InitSettle /\ [][SettleNext]_vars

RECURSIVE RecordedOn(_, _)
\* the sum of the proceeds the log holds for calendar day d
RecordedOn(log, d) ==
    IF log = << >> THEN 0
    ELSE (IF Head(log).day = d THEN Head(log).amount ELSE 0)
         + RecordedOn(Tail(log), d)

INITIAL_CASH == 10000000      \* initial_cash = 100_000.0, in cents

MaxTrades == 3                \* records in the trade log

RECURSIVE Gcd(_, _)
Gcd(a, b) == IF b = 0 THEN a ELSE Gcd(b, a % b)

Abs(n) == IF n < 0 THEN -n ELSE n

\* the fraction n / d (d > 0) in lowest terms
Rat(n, d) == LET g == Gcd(Abs(n), d) IN <<n \div g, d \div g>>
RatInt(n) == <<n, 1>>
RatAdd(a, b) == Rat(a[1] * b[2] + b[1] * a[2], a[2] * b[2])
RatTimes(a, k) == LET g == Gcd(Abs(k), a[2]) IN Rat(a[1] * (k \div g), a[2] \div g)
RatOver(a, k) == Rat(a[1], a[2] * k)
RatLeq(a, b) == a[1] * b[2] <= b[1] * a[2]

Holding(qty, avg_cost) == [qty |-> qty, avg_cost |-> avg_cost]

TrackerState(h, c, tv) == [holdings |-> h, cash |-> c, total_value |-> tv]

\* a record of the trade log, as SimExecutor.execute_buy / execute_sell
\* build it (the fields the tracker reads, and total)
Trade(action, symbol, quantity, price) ==
    [action |-> action, symbol |-> symbol, quantity |-> quantity,
     price |-> price, total |-> quantity * price]

\* a holding is dropped only once its quantity is below zero
Closed_BelowZero(qty) == qty < 0

\* sync_from_sim: if self.holdings[sym]["qty"] <= 0: del self.holdings[sym]
Closed(qty) == qty <= 0

\* sync_from_sim, the body of the loop for one trade
ApplyTrade(h, c, trade) ==
    LET sym   == trade.symbol
        qty   == trade.quantity
        price == trade.price
    IN IF trade.action = "BUY"
       THEN LET cost == qty * price IN
            IF sym \in DOMAIN h
            THEN LET old        == h[sym]
                     total_qty  == old.qty + qty
                     total_cost == RatAdd(RatTimes(old.avg_cost, old.qty), RatInt(cost))
                 IN [holdings |->
                        Put(h, sym,
                            Holding(total_qty,
                                    IF total_qty # 0 THEN RatOver(total_cost, total_qty)
                                    ELSE RatInt(0))),
                     cash |-> c - cost]
            ELSE [holdings |-> Put(h, sym, Holding(qty, RatInt(price))),
                  cash |-> c - cost]
       ELSE IF trade.action = "SELL"
       THEN LET proceeds == qty * price IN
            IF sym \in DOMAIN h
            THEN LET left == h[sym].qty - qty IN
                 [holdings |->
                     IF Closed(left) THEN Without(h, {sym})
                     ELSE Put(h, sym, Holding(left, h[sym].avg_cost)),
                  cash |-> c + proceeds]
            ELSE [holdings |-> h, cash |-> c + proceeds]
       ELSE [holdings |-> h, cash |-> c]

RECURSIVE ReplayFrom(_, _, _)
\* sync_from_sim, the loop over the trades in file order
ReplayFrom(h, c, trades) ==
    IF trades = << >> THEN [holdings |-> h, cash |-> c]
    ELSE LET next == ApplyTrade(h, c, Head(trades))
         IN ReplayFrom(next.holdings, next.cash, Tail(trades))

RECURSIVE HoldingsValueOver(_, _)
HoldingsValueOver(h, S) ==
    IF S = {} THEN RatInt(0)
    ELSE LET k == CHOOSE x \in S : TRUE
         IN RatAdd(RatTimes(h[k].avg_cost, h[k].qty), HoldingsValueOver(h, S \ {k}))

\* sum(h["qty"] * h["avg_cost"] for h in self.holdings.values())
HoldingsValue(h) == HoldingsValueOver(h, DOMAIN h)

\* the start of a replay that forgets to empty the holdings
SimStart_KeepHoldings(self_holdings, initial_cash) ==
    [holdings |-> self_holdings, cash |-> initial_cash]

\* sync_from_sim: self.holdings = {}; self.cash = initial_cash
SimStart(self_holdings, initial_cash) ==
    [holdings |-> << >>, cash |-> initial_cash]

\* json.load of the trade log; [] when it does not parse
TradesLoad(file) == IF file.state = "ok" THEN file.content ELSE << >>

\* sync_from_sim: the tracker state it leaves (and saves)
sync_from_sim(self_holdings, file, initial_cash) ==
    LET start == SimStart(self_holdings, initial_cash) IN
    IF file.state = "absent"
    THEN TrackerState(start.holdings, start.cash, RatInt(start.cash))
    ELSE LET end == ReplayFrom(start.holdings, start.cash, TradesLoad(file))
         IN TrackerState(end.holdings, end.cash,
                         RatAdd(RatInt(end.cash), HoldingsValue(end.holdings)))

\* what the brokerage returns for get_balance and get_portfolio
ApiAccount(cashBuyingPower, totalAccountValue, positions) ==
    [cashBuyingPower |-> cashBuyingPower, totalAccountValue |-> totalAccountValue,
     positions |-> positions]

ApiPosition(symbol, quantity, pricePaid, marketValue, totalGain) ==
    [symbol |-> symbol, quantity |-> quantity, pricePaid |-> pricePaid,
     marketValue |-> marketValue, totalGain |-> totalGain]

RECURSIVE HoldingsFromApi(_, _)
\* sync_from_api, the loop over the positions: a later position of the same
\* symbol replaces the earlier one, a position without a symbol is skipped
HoldingsFromApi(h, positions) ==
    IF positions = << >> THEN h
    ELSE LET pos == Head(positions) IN
         HoldingsFromApi(
             IF pos.symbol = "" THEN h
             ELSE Put(h, pos.symbol,
                      [qty |-> pos.quantity, avg_cost |-> RatInt(pos.pricePaid),
                       market_value |-> pos.marketValue,
                       total_gain |-> pos.totalGain]),
             Tail(positions))

\* sync_from_api: the tracker state it leaves (and saves); a missing balance
\* field reads as 0.0
sync_from_api(account) ==
    TrackerState(HoldingsFromApi(<< >>, account.positions),
                 IF account.cashBuyingPower = None THEN 0
                 ELSE ValueOf(account.cashBuyingPower),
                 IF account.totalAccountValue = None THEN RatInt(0)
                 ELSE RatInt(ValueOf(account.totalAccountValue)))

RECURSIVE MarketValueOver(_, _, _)
MarketValueOver(h, prices, S) ==
    IF S = {} THEN RatInt(0)
    ELSE LET sym == CHOOSE x \in S : TRUE
         IN RatAdd(IF sym \in DOMAIN prices THEN RatInt(h[sym].qty * prices[sym])
                   ELSE RatTimes(h[sym].avg_cost, h[sym].qty),
                   MarketValueOver(h, prices, S \ {sym}))

\* update_market_values: the new total_value
update_market_values(h, c, prices) ==
    RatAdd(RatInt(c), MarketValueOver(h, prices, DOMAIN h))

\* PortfolioTracker.save: the content written to PORTFOLIO_STATE_FILE
SavedState(h, c, tv) == FileWith(TrackerState(h, c, tv))

\* PortfolioTracker._load: the state after construction
PortfolioLoad(file) ==
    IF file.state = "ok" THEN file.content
    ELSE TrackerState(<< >>, 0, RatInt(0))

TrackerSymbols == {ALL_SYMBOLS[1], ALL_SYMBOLS[2]}

\* the trades the simulated executor is asked for
TradeValues ==
    {Trade("BUY", ALL_SYMBOLS[1], 1, 1000), Trade("BUY", ALL_SYMBOLS[1], 2, 1301),
     Trade("SELL", ALL_SYMBOLS[1], 1, 1301), Trade("SELL", ALL_SYMBOLS[1], 3, 1000),
     Trade("BUY", ALL_SYMBOLS[2], 1, 1000), Trade("SELL", ALL_SYMBOLS[2], 1, 1301)}

\* live_prices handed to update_market_values: the quoted symbols
TrackerPriceMaps ==
    {<< >>, [s \in {ALL_SYMBOLS[1]} |-> 1500], [s \in TrackerSymbols |-> 900]}

\* accounts the brokerage reports: one without balance fields and positions,
\* one with a position
ApiAccounts ==
    {ApiAccount(None, None, << >>),
     ApiAccount(Some(500000), Some(620000),
                <<ApiPosition(ALL_SYMBOLS[1], 100, 1000, 120000, 20000),
                  ApiPosition("", 5, 1000, 5000, 0)>>)}

\* what an earlier run may have left in PORTFOLIO_STATE_FILE
PortfolioFiles ==
    {AbsentFile, CorruptFile}
    \cup {SavedState(st.holdings, st.cash, st.total_value) :
             st \in {sync_from_api(a) : a \in ApiAccounts}}
    \cup {SavedState(st.holdings, st.cash, st.total_value) :
             st \in {sync_from_sim(<< >>, FileWith(<<t>>), INITIAL_CASH) :
                        t \in TradeValues}}

TrackerCall(op) == [op |-> op]

TrackerInit ==
    /\ mode \in {"SIM", "REAL"}
    /\ tradesFile \in {AbsentFile, CorruptFile, FileWith(<< >>)}
    /\ simTrades = IF mode = "SIM" THEN TradesLoad(tradesFile) ELSE << >>
    /\ portfolioFile \in PortfolioFiles
    /\ LET st == PortfolioLoad(portfolioFile)
       IN /\ holdings = st.holdings
          /\ cash = st.cash
          /\ total_value = st.total_value
    /\ trackerCall = TrackerCall("init")
    /\ lastSim = None

\* portfolio.sync_from_sim(TRADES_FILE)
SyncFromSim ==
    /\ mode = "SIM"
    /\ LET st == sync_from_sim(holdings, tradesFile, INITIAL_CASH)
       IN /\ holdings' = st.holdings
          /\ cash' = st.cash
          /\ total_value' = st.total_value
          /\ portfolioFile' = SavedState(st.holdings, st.cash, st.total_value)
          \* history: the ledger read, the result, what the tracker held
          \* before, and whether the replay before read the same ledger
          /\ lastSim' = Some([ledger |-> tradesFile, state |-> st,
                               prior |-> holdings, again |-> lastSim # None])
    /\ trackerCall' = TrackerCall("sync_from_sim")
    /\ UNCHANGED <<mode, tradesFile, simTrades>>
    /\ FrameExcept({"tracker"})

\* portfolio.sync_from_api(etrade, account)
SyncFromApi ==
    /\ mode = "REAL"
    /\ \E account \in ApiAccounts :
           LET st == sync_from_api(account)
           IN /\ holdings' = st.holdings
              /\ cash' = st.cash
              /\ total_value' = st.total_value
              /\ portfolioFile' = SavedState(st.holdings, st.cash, st.total_value)
    /\ trackerCall' = TrackerCall("sync_from_api")
    /\ UNCHANGED <<mode, tradesFile, simTrades, lastSim>>
    /\ FrameExcept({"tracker"})

\* run() syncs the tracker right after it constructs it, before the first
\* cycle
Synced == trackerCall.op # "init"

\* portfolio.update_market_values(live_prices): nothing is saved
UpdateMarketValues ==
    /\ Synced
    /\ \E prices \in TrackerPriceMaps :
           total_value' = update_market_values(holdings, cash, prices)
    /\ trackerCall' = TrackerCall("update_market_values")
    /\ UNCHANGED <<mode, tradesFile, simTrades, holdings, cash, portfolioFile,
                   lastSim>>
    /\ FrameExcept({"tracker"})

\* the trade is put in front of the list
SimExecute_Prepend ==
    /\ mode = "SIM"
    /\ Synced
    /\ Len(simTrades) < MaxTrades
    /\ \E trade \in TradeValues :
           /\ simTrades' = <<trade>> \o simTrades
           /\ tradesFile' = FileWith(simTrades')
    /\ trackerCall' = TrackerCall("execute")
    /\ lastSim' = None
    /\ UNCHANGED <<mode, holdings, cash, total_value, portfolioFile>>
    /\ FrameExcept({"tracker"})

\* SimExecutor.execute_buy / execute_sell: the trade is appended to
\* self.trades and the list saved, unless _save raises an I/O error
SimExecute ==
    /\ mode = "SIM"
    /\ Synced
    /\ Len(simTrades) < MaxTrades
    /\ \E trade \in TradeValues, saved \in BOOLEAN :
           /\ simTrades' = Append(simTrades, trade)
           /\ tradesFile' = IF saved THEN FileWith(simTrades') ELSE tradesFile
           /\ trackerCall' = TrackerCall(IF saved THEN "execute"
                                         ELSE "execute_raised")
    /\ lastSim' = None
    /\ UNCHANGED <<mode, holdings, cash, total_value, portfolioFile>>
    /\ FrameExcept({"tracker"})

\* the process ends and run() starts again, in either mode: PortfolioTracker()
\* loads the state file the last save left
Restart ==
    /\ Synced
    /\ mode' \in {"SIM", "REAL"}
    /\ simTrades' = IF mode' = "SIM" THEN TradesLoad(tradesFile) ELSE << >>
    /\ LET st == PortfolioLoad(portfolioFile)
       IN /\ holdings' = st.holdings
          /\ cash' = st.cash
          /\ total_value' = st.total_value
    /\ trackerCall' = TrackerCall("init")
    /\ UNCHANGED <<tradesFile, portfolioFile, lastSim>>
    /\ FrameExcept({"tracker"})

TrackerNext ==
    \/ SyncFromSim
    \/ SyncFromApi
    \/ UpdateMarketValues
    \/ SimExecute
    \/ Restart

InitTracker == TrackerInit /\ IdleExcept({"tracker"})

SpecTracker == InitTracker /\ [][TrackerNext]_vars

\* C12: ledger replay is deterministic and idempotent: a sync_from_sim over
\* the ledger the previous sync_from_sim read leaves the same holdings, cash
\* and total value as that one did, whatever the tracker held before it (the
\* result of the previous replay, a revalued total, or the state a run in
\* the other mode left behind).
C12_ReplayDeterministicIdempotent ==
    [][(/\ trackerCall'.op = "sync_from_sim"
        /\ lastSim # None
        /\ tradesFile' = ValueOf(lastSim).ledger)
       => /\ holdings' = ValueOf(lastSim).state.holdings
          /\ cash' = ValueOf(lastSim).state.cash
          /\ total_value' = ValueOf(lastSim).state.total_value]_vars

\* C12 witness: the ledger holds a buy, the tracker came from the brokerage
\* with other holdings, and the replay gave what the replay before gave
C12_Witness ==
    /\ trackerCall.op = "sync_from_sim"
    /\ lastSim # None
    /\ Len(TradesLoad(tradesFile)) >= 2
    /\ \E i \in 1..Len(TradesLoad(tradesFile)) : TradesLoad(tradesFile)[i].action = "BUY"
    /\ ValueOf(lastSim).again
    /\ ValueOf(lastSim).prior # << >>
    /\ ValueOf(lastSim).prior # holdings
    /\ holdings # << >>
    /\ holdings = ValueOf(lastSim).state.holdings

RECURSIVE LedgerCashFlow(_)
\* sum of SELL proceeds minus sum of BUY costs of a ledger
LedgerCashFlow(trades) ==
    IF trades = << >> THEN 0
    ELSE (IF Head(trades).action = "BUY"
          THEN -(Head(trades).quantity * Head(trades).price)
          ELSE IF Head(trades).action = "SELL"
          THEN Head(trades).quantity * Head(trades).price
          ELSE 0)
         + LedgerCashFlow(Tail(trades))

\* the holdings after the first k trades of the ledger in the file; after
\* all of them, the holdings the tracker has
HoldingsAfter(k) ==
    IF k = Len(TradesLoad(tradesFile)) THEN holdings
    ELSE sync_from_sim(<< >>, FileWith(SubSeq(TradesLoad(tradesFile), 1, k)),
                       INITIAL_CASH).holdings

\* what trade k did to the holdings, in the claim's words
TradeEffect(before, after, trade) ==
    LET sym == trade.symbol
        qty == trade.quantity
    IN /\ \A s \in (DOMAIN before \cup DOMAIN after) \ {sym} :
              s \in DOMAIN before /\ s \in DOMAIN after /\ after[s] = before[s]
       /\ trade.action = "BUY" =>
              /\ sym \in DOMAIN after
              /\ IF sym \in DOMAIN before
                 THEN /\ after[sym].qty = before[sym].qty + qty
                      \* avg' x qty' = avg x qty + quantity x price
                      /\ after[sym].avg_cost[1] * after[sym].qty * before[sym].avg_cost[2]
                         = (before[sym].avg_cost[1] * before[sym].qty
                            + qty * trade.price * before[sym].avg_cost[2])
                           * after[sym].avg_cost[2]
                 ELSE /\ after[sym].qty = qty
                      /\ after[sym].avg_cost = <<trade.price, 1>>
       /\ trade.action = "SELL" =>
              IF sym \in DOMAIN before /\ before[sym].qty - qty > 0
              THEN /\ sym \in DOMAIN after
                   /\ after[sym].qty = before[sym].qty - qty
                   /\ after[sym].avg_cost = before[sym].avg_cost
              ELSE sym \notin DOMAIN after

\* C13: after a replay of a ledger of BUY and SELL records with positive
\* quantities, cash = initial cash - BUY costs + SELL proceeds; every BUY
\* opened a holding or raised its quantity with the quantity-weighted
\* average cost; every SELL lowered the quantity, kept the average cost and
\* removed the holding at zero or below; no holding has quantity <= 0; and
\* total value = cash + sum of quantity x average cost.
C13_ReplayAccounting ==
    trackerCall.op = "sync_from_sim" =>
        LET trades == TradesLoad(tradesFile) IN
        /\ cash = INITIAL_CASH + LedgerCashFlow(trades)
        /\ \A k \in 1..Len(trades) :
               TradeEffect(HoldingsAfter(k - 1), HoldingsAfter(k), trades[k])
        /\ Len(trades) = 0 => holdings = << >>
        /\ \A s \in DOMAIN holdings : holdings[s].qty > 0
        /\ total_value[1] * HoldingsValue(holdings)[2]
           = (cash * HoldingsValue(holdings)[2] + HoldingsValue(holdings)[1])
             * total_value[2]

\* C13 witness: two buys of one symbol at different prices and a partial
\* sale left two shares at the weighted average 3602/3
C13_Witness ==
    /\ trackerCall.op = "sync_from_sim"
    /\ Len(TradesLoad(tradesFile)) = 3
    /\ ALL_SYMBOLS[1] \in DOMAIN holdings
    /\ holdings[ALL_SYMBOLS[1]] = Holding(2, <<3602, 3>>)
    /\ cash = INITIAL_CASH - 1000 - 2602 + 1301
    /\ total_value = <<3 * cash + 7204, 3>>

\* C16: after each of sync_from_api, sync_from_sim and update_market_values
\* returns, the portfolio-state file holds the same holdings, cash and total
\* value as the tracker in memory.
C16_PersistedAfterEveryMutation ==
    trackerCall.op \in {"sync_from_api", "sync_from_sim", "update_market_values"}
        => portfolioFile = SavedState(holdings, cash, total_value)

(***************************************************************************)
(* order_executor.py : RealExecutor, with ETradeSession.preview_order and  *)
(* place_order of api_wrapper.py.                                          *)
(*                                                                         *)
(* _execute blocks twice, in the POST of preview_order and in the POST of  *)
(* place_order; the model takes one step for each.  A JSON object is a     *)
(* function from its keys, {} the empty one.  An HTTP response is          *)
(* [status_code, json].  Prices of this section are in tenths of a cent,   *)
(* the limit price sent is round(price, 2), in cents.                      *)
(***************************************************************************)
HTTP_OK == 200

Dict(keys, value) == [k \in keys |-> value]
IsEmpty(dict) == DOMAIN dict = {}

HttpResponse(status_code, json) == [status_code |-> status_code, json |-> json]

\* what the brokerage may answer to a preview request: an error status, a
\* body without PreviewOrderResponse, an empty one, one without PreviewIds,
\* one with an empty list of them, one with a preview id
PreviewResponses ==
    {HttpResponse(400, << >>),
     HttpResponse(HTTP_OK, << >>),
     HttpResponse(HTTP_OK, Dict({"PreviewOrderResponse"}, << >>)),
     HttpResponse(HTTP_OK, Dict({"PreviewOrderResponse"}, Dict({"Order"}, << >>))),
     HttpResponse(HTTP_OK, Dict({"PreviewOrderResponse"}, Dict({"PreviewIds"}, << >>))),
     HttpResponse(HTTP_OK, Dict({"PreviewOrderResponse"},
                                Dict({"PreviewIds"}, <<Dict({"previewId"}, 7)>>)))}

\* what it may answer to a place request
PlaceResponses ==
    {HttpResponse(400, << >>),
     HttpResponse(HTTP_OK, << >>),
     HttpResponse(HTTP_OK, Dict({"PlaceOrderResponse"}, << >>)),
     HttpResponse(HTTP_OK, Dict({"PlaceOrderResponse"}, Dict({"Order"}, << >>))),
     HttpResponse(HTTP_OK, Dict({"PlaceOrderResponse"},
                                Dict({"OrderIds"}, <<Dict({"orderId"}, 9)>>)))}

\* preview_order, after the POST: {} unless the status is 200
preview_order(resp) ==
    IF resp.status_code # HTTP_OK THEN << >>
    ELSE Get(resp.json, "PreviewOrderResponse", << >>)

\* place_order, after the POST
place_order(resp) ==
    IF resp.status_code # HTTP_OK THEN << >>
    ELSE Get(resp.json, "PlaceOrderResponse", << >>)

\* a preview response counts as soon as it is not empty
HasPreviewIds_AnyResponse(preview_response) == TRUE

\* _execute: preview_ids = preview.get("PreviewIds", []); if not preview_ids
HasPreviewIds(preview_response) ==
    Get(preview_response, "PreviewIds", << >>) # << >>

Order(action, symbol, quantity, price, reason) ==
    [action |-> action, symbol |-> symbol, quantity |-> quantity,
     price |-> price, reason |-> reason]

\* a request posted to the brokerage and the response it got
Request(kind, o, resp) ==
    [kind |-> kind, symbol |-> o.symbol, action |-> o.action,
     quantity |-> o.quantity, limit_price |-> RoundHalfEven(o.price, 10),
     response |-> resp]

ExecPrices == {10004, 10006}
ExecQuantities == {1, 2}

ExecInit ==
    /\ order = None
    /\ execPc = "idle"
    /\ preview = << >>
    /\ requests = << >>
    /\ outcome = None

\* execute_buy / execute_sell are called: _execute starts
ExecuteCall ==
    /\ execPc = "idle"
    /\ \E action \in {"BUY", "SELL"}, symbol \in Symbols,
          quantity \in ExecQuantities, price \in ExecPrices :
           order' = Some(Order(action, symbol, quantity, price, "signal"))
    /\ execPc' = "preview"
    /\ preview' = << >>
    /\ requests' = << >>
    /\ outcome' = None
    /\ FrameExcept({"exec"})

\* _execute, step 1: preview_order posts the request; without a response or
\* without preview ids _execute returns the error
ExecutePreview ==
    /\ execPc = "preview"
    /\ \E resp \in PreviewResponses :
           LET p == preview_order(resp) IN
           /\ requests' = Append(requests, Request("preview", ValueOf(order), resp))
           /\ preview' = p
           /\ IF IsEmpty(p)
              THEN /\ outcome' = Some(Dict({"error"}, "preview_failed"))
                   /\ execPc' = "done"
              ELSE IF ~HasPreviewIds(p)
              THEN /\ outcome' = Some(Dict({"error"}, "no_preview_ids"))
                   /\ execPc' = "done"
              ELSE /\ outcome' = None
                   /\ execPc' = "place"
    /\ UNCHANGED order
    /\ FrameExcept({"exec"})

\* _execute, step 2: place_order returns {} without posting when the preview
\* carries no ids, else posts the request; _execute returns the error or the
\* placed order
ExecutePlace ==
    /\ execPc = "place"
    /\ IF Get(preview, "PreviewIds", << >>) = << >>
       THEN /\ requests' = requests
            /\ outcome' = Some(Dict({"error"}, "place_failed"))
       ELSE \E resp \in PlaceResponses :
                LET result == place_order(resp) IN
                /\ requests' = Append(requests, Request("place", ValueOf(order), resp))
                /\ outcome' =
                       IF IsEmpty(result)
                       THEN Some(Dict({"error"}, "place_failed"))
                       ELSE Some([action |-> ValueOf(order).action,
                                  symbol |-> ValueOf(order).symbol,
                                  quantity |-> ValueOf(order).quantity,
                                  price |-> ValueOf(order).price,
                                  reason |-> ValueOf(order).reason,
                                  order_response |-> result])
    /\ execPc' = "done"
    /\ UNCHANGED <<order, preview>>
    /\ FrameExcept({"exec"})

\* the caller has the result; the executor waits for the next call
ExecuteReturn ==
    /\ execPc = "done"
    /\ execPc' = "idle"
    /\ order' = None
    /\ UNCHANGED <<preview, requests, outcome>>
    /\ FrameExcept({"exec"})

ExecNext ==
    \/ ExecuteCall
    \/ ExecutePreview
    \/ ExecutePlace
    \/ ExecuteReturn

InitExec == ExecInit /\ IdleExcept({"exec"})

SpecExec == InitExec /\ [][ExecNext]_vars

\* the requests of one kind among those posted
RequestsOfKind(kind) == {i \in 1..Len(requests) : requests[i].kind = kind}

\* the brokerage answered the preview with a preview identifier
PreviewReturnedId ==
    /\ Len(requests) >= 1
    /\ requests[1].kind = "preview"
    /\ requests[1].response.status_code = 200
    /\ "PreviewOrderResponse" \in DOMAIN requests[1].response.json
    /\ "PreviewIds" \in DOMAIN requests[1].response.json["PreviewOrderResponse"]
    /\ Len(requests[1].response.json["PreviewOrderResponse"]["PreviewIds"]) >= 1

\* the brokerage acknowledged the place request
PlaceAcknowledged ==
    /\ Len(requests) = 2
    /\ requests[2].kind = "place"
    /\ requests[2].response.status_code = 200
    /\ "PlaceOrderResponse" \in DOMAIN requests[2].response.json
    /\ DOMAIN requests[2].response.json["PlaceOrderResponse"] # {}

OutcomeError == IF "error" \in DOMAIN ValueOf(outcome)
                THEN ValueOf(outcome)["error"] ELSE "none"

\* C14: one execute_buy / execute_sell call of the live executor previews
\* the order exactly once, places it at most once and only after the preview
\* returned a preview identifier, and returns exactly one of: preview failed
\* (nothing placed), place failed, placed; placed is returned only when the
\* preview and the place were both acknowledged.
C14_TwoPhaseNoRetry ==
    /\ Cardinality(RequestsOfKind("preview")) <= 1
    /\ Cardinality(RequestsOfKind("place")) <= 1
    /\ RequestsOfKind("place") # {} =>
           /\ RequestsOfKind("place") = {2}
           /\ PreviewReturnedId
    /\ execPc \in {"place", "done"} => RequestsOfKind("preview") = {1}
    /\ execPc \in {"preview", "place"} => outcome = None
    /\ execPc = "done" =>
           /\ outcome # None
           /\ \/ /\ OutcomeError \in {"preview_failed", "no_preview_ids"}
                 /\ ~PreviewReturnedId
                 /\ RequestsOfKind("place") = {}
              \/ /\ OutcomeError = "place_failed"
                 /\ PreviewReturnedId
                 /\ RequestsOfKind("place") = {2}
                 /\ ~PlaceAcknowledged
              \/ /\ OutcomeError = "none"
                 /\ PreviewReturnedId
                 /\ PlaceAcknowledged
                 /\ ValueOf(outcome)["symbol"] = ValueOf(order).symbol
                 /\ ValueOf(outcome)["quantity"] = ValueOf(order).quantity

\* C14 witness: a call returned the placed order after one preview and one
\* place request
C14_Witness ==
    /\ execPc = "done"
    /\ OutcomeError = "none"
    /\ Len(requests) = 2
    /\ requests[1].kind = "preview"
    /\ requests[2].kind = "place"
    /\ requests[2].limit_price = 1001

\* a call returned place_failed after an acknowledged preview
C14_WitnessPlaceFailed ==
    /\ execPc = "done"
    /\ OutcomeError = "place_failed"
    /\ PreviewReturnedId
    /\ Len(requests) = 2

(***************************************************************************)
(* order_executor.py : compute_position_size                               *)
(*                                                                         *)
(* price is in cents, portfolio_value and the budgets are exact fractions  *)
(* of cents, sector_allocation is a fraction <<num, den>>.                 *)
(***************************************************************************)
MAX_POSITION_PCT == 5         \* 0.05, in percent

\* a // b for a fraction a and an integer b > 0: the floor of the quotient
RatFloorDiv(a, b) == a[1] \div (a[2] * b)

\* min(a, b) of two fractions
RatMin(a, b) == IF RatLeq(a, b) THEN a ELSE b

\* the quantity sized from the per-stock budget alone
Budget_Uncapped(per_stock_budget, max_budget) == per_stock_budget

\* budget = min(per_stock_budget, max_budget)
Budget(per_stock_budget, max_budget) == RatMin(per_stock_budget, max_budget)

compute_position_size(symbol, price, portfolio_value, sector_allocation, num_sector_stocks) ==
    IF price <= 0 \/ portfolio_value[1] <= 0 THEN 0
    ELSE LET sector_budget    == Rat(portfolio_value[1] * sector_allocation[1],
                                     portfolio_value[2] * sector_allocation[2])
             per_stock_budget == RatOver(sector_budget, Max2(num_sector_stocks, 1))
             max_budget       == Rat(portfolio_value[1] * MAX_POSITION_PCT,
                                     portfolio_value[2] * 100)
             budget           == Budget(per_stock_budget, max_budget)
             qty              == RatFloorDiv(budget, price)
         IN Max2(qty, 0)

(***************************************************************************)
(* main.py : run, the polling loop.                                        *)
(*                                                                         *)
(* One step for the start-up sync, one for steps 3 to 10 of a cycle (the   *)
(* quotes, the scores, update_market_values, the risk flags, the signals), *)
(* one for each iteration of the order loop (step 11), one for the sync    *)
(* at the end of the cycle (step 12), one for the wait between cycles,     *)
(* one for a cycle that finds the market closed.  The value scores, the    *)
(* windows and the quotes of a cycle come from outside and are drawn from  *)
(* small sets.                                                             *)
(***************************************************************************)
MAX_POSITIONS == 20

MaxCycles == 2                \* cycles in one run
MaxCycleNow == 2              \* the clock of the cycle runs stops here
WaitIncrements == 2           \* turns of the loop of _sleep in one wait

get_risk_flags_NeverBlocked(symbol, num_positions, blocked_now) ==
    RiskFlags(FALSE, num_positions >= MAX_POSITIONS)

\* get_risk_flags
get_risk_flags(symbol, num_positions, blocked_now) ==
    RiskFlags(symbol \in DOMAIN blocked_now, num_positions >= MAX_POSITIONS)

\* allocations as the dict compute_sector_allocations returns
AllocationsDict(v) == [s \in DOMAIN v.num |-> Rat(v.num[s], v.den)]

\* live_prices of a cycle: every symbol quoted at 10.00; the first one at
\* 9.00, the second one without a quote and the third one quoted at 0; the
\* first one at 1600.00 and the others at 10.00
CyclePriceMaps ==
    {[s \in Symbols |-> 1000],
     [s \in Symbols \ {ALL_SYMBOLS[2]} |-> IF s = ALL_SYMBOLS[3] THEN 0 ELSE 900],
     [s \in Symbols |-> IF s = ALL_SYMBOLS[1] THEN 160000 ELSE 1000]}

\* value scores of a cycle: all strong, all collapsed, the first collapsed
\* and the others good but not strong
CycleScoreMaps ==
    {[s \in Symbols |-> 7500], [s \in Symbols |-> 2500],
     [s \in Symbols |-> IF s = ALL_SYMBOLS[1] THEN 2500 ELSE 6500]}

\* the sector performance computed from the historical data of a run: Tech
\* behind the others
CyclePerformances == {[s \in SectorSet |-> IF s = "Tech" THEN -10 ELSE 0]}

\* the accounts the brokerage reports in REAL mode: one with little cash
\* and a position bought above the quotes, one with cash and no position
CycleAccounts ==
    {ApiAccount(Some(3000), Some(620000),
                <<ApiPosition(ALL_SYMBOLS[1], 100, 1200, 120000, 0)>>),
     ApiAccount(Some(500000), Some(500000), << >>)}

\* SimExecutor: the trade is logged, or _save raises an I/O error;
\* RealExecutor._execute: what it returns for the answers of the brokerage
RealOutcome(presp, plresp) ==
    LET p == preview_order(presp) IN
    IF IsEmpty(p) THEN "preview_failed"
    ELSE IF ~HasPreviewIds(p) THEN "no_preview_ids"
    ELSE IF IsEmpty(place_order(plresp)) THEN "place_failed"
    ELSE "placed"

ExecutorOutcomes(m) ==
    IF m = "SIM" THEN {"logged", "raised"}
    ELSE {RealOutcome(presp, plresp) : presp \in PreviewResponses, plresp \in PlaceResponses}

SizingCall(price, portfolio_value, sector_allocation, num_sector_stocks, result) ==
    [price |-> price, portfolio_value |-> portfolio_value,
     sector_allocation |-> sector_allocation,
     num_sector_stocks |-> num_sector_stocks, result |-> result]

\* history: what one iteration of the order loop did
OrderLog(sg, result, quantity, price, portfolio_value, avail) ==
    [symbol |-> sg.symbol, action |-> sg.action, priority |-> sg.priority,
     result |-> result, quantity |-> quantity, price |-> price,
     portfolio_value |-> portfolio_value, avail |-> avail]

\* the loss of a sale: (pos.get("avg_cost", price) - price) * qty
SaleLoss(pos, price) == RatTimes(RatAdd(pos.avg_cost, RatInt(-price)), pos.qty)

\* loss >= WASH_SALE_LOSS_THRESHOLD, in run and again in record_sale
LossAtThreshold(loss) == RatLeq(RatInt(WASH_SALE_LOSS_THRESHOLD * 100), loss)

\* one iteration of the order loop up to the call of the executor: what it
\* decides, and the settlement tracker after get_unavailable_cash
LoopBody(sg) ==
    LET sym == sg.symbol
        nothing(result, price) ==
            [result |-> result, quantity |-> 0, price |-> price, avail |-> None,
             sized |-> None, pending |-> pending, queried |-> None]
    IN IF sym \notin DOMAIN live_prices THEN nothing("no_price", 0)
       ELSE LET price == live_prices[sym] IN
       IF sg.action \in {ACTION_BUY, ACTION_STRONG_BUY}
       THEN LET sector        == SymbolToSector(sym, "Tech")
                num_in_sector == IF sector \in DOMAIN SECTORS
                                 THEN Len(SECTORS[sector]) ELSE 0
                al            == Get(cycleAllocations, sector, <<33, 100>>)
                qty           == compute_position_size(sym, price, total_value, al,
                                                       num_in_sector)
                call          == Some(SizingCall(price, total_value, al,
                                                 num_in_sector, qty))
            IN IF qty > 0
               THEN LET today       == strftime_date(now)
                        keep        == StillPending(pending, today)
                        unavailable == SumOver(pending, keep)
                        cost        == qty * price
                        avail       == cash - unavailable
                        capped      == IF cost > avail THEN avail \div price ELSE qty
                    IN [result |-> IF capped > 0 THEN "buy" ELSE "no_cash",
                        quantity |-> capped, price |-> price,
                        avail |-> Some(avail), sized |-> call,
                        pending |-> Without(pending, DOMAIN pending \ keep),
                        queried |-> Some(unavailable)]
               ELSE [nothing("not_sized", price) EXCEPT !.sized = call]
       ELSE IF sg.action = ACTION_SELL
       THEN IF sym \in DOMAIN holdings /\ holdings[sym].qty > 0
            THEN [nothing("sell", price) EXCEPT !.quantity = holdings[sym].qty]
            ELSE nothing("not_held", price)
       ELSE nothing("ignored", price)

\* inputs of compute_position_size outside what the reduced universe gives
\* the order loop: prices and portfolio values at and below zero, a sector
\* of 17 symbols
SizingPrices == {-100, 0, 1000, 33333}
SizingValues == {<<-5000, 1>>, <<0, 1>>, <<100000, 1>>, <<620001, 3>>}
SizingAllocations == {<<1, 3>>, <<11, 17>>, <<3, 17>>}
SizingCounts == {0, 1, 17}

CycleInit ==
    /\ mode \in {"SIM", "REAL"}
    /\ tradesFile = AbsentFile
    /\ simTrades = << >>
    /\ portfolioFile = AbsentFile
    /\ holdings = << >>
    /\ cash = 0
    /\ total_value = RatInt(0)
    /\ trackerCall = TrackerCall("init")
    /\ lastSim = None
    /\ now = 0
    /\ blocked = << >>
    /\ washFile = AbsentFile
    /\ washCall = NoCall
    /\ lastBlock = [s \in Symbols |-> None]
    /\ pending = << >>
    /\ settleCall = NoSettleCall
    /\ recorded = << >>
    /\ cycle = 0
    /\ cycleSignals = << >>
    /\ sigIdx = 0
    /\ cyclePc = "startup"
    /\ live_prices = << >>
    /\ cycleAllocations = << >>
    /\ sizing = None
    /\ orders = << >>
    /\ running = TRUE
    /\ waited = 0

CycleFrame == FrameExcept({"clock", "wash", "settle", "tracker", "cycle"})

\* compute_position_size on its own
SizePosition ==
    /\ cyclePc = "startup"
    /\ sizing = None
    /\ \E price \in SizingPrices, value \in SizingValues,
          al \in SizingAllocations, n \in SizingCounts :
           sizing' = Some(SizingCall(price, value, al, n,
                              compute_position_size("", price, value, al, n)))
    /\ UNCHANGED <<clockVars, washVars, settleVars, trackerVars, cycle,
                   cycleSignals, sigIdx, cyclePc, live_prices, cycleAllocations,
                   orders, running, waited>>
    /\ CycleFrame

\* portfolio.sync_from_sim(TRADES_FILE) or portfolio.sync_from_api(...)
PortfolioSync ==
    /\ \E account \in CycleAccounts :
           LET st == IF mode = "SIM"
                     THEN sync_from_sim(holdings, tradesFile, INITIAL_CASH)
                     ELSE sync_from_api(account)
           IN /\ holdings' = st.holdings
              /\ cash' = st.cash
              /\ total_value' = st.total_value
              /\ portfolioFile' = SavedState(st.holdings, st.cash, st.total_value)
              /\ lastSim' = IF mode = "SIM"
                            THEN Some([ledger |-> tradesFile, state |-> st,
                                       prior |-> holdings, again |-> lastSim # None])
                            ELSE lastSim
    /\ trackerCall' = TrackerCall(IF mode = "SIM" THEN "sync_from_sim"
                                  ELSE "sync_from_api")
    /\ UNCHANGED <<mode, tradesFile, simTrades>>

\* run, before the polling loop: the sync after the components are built
CycleStartup ==
    /\ cyclePc = "startup"
    /\ PortfolioSync
    /\ cyclePc' = "sleep"
    \* the loop is entered without a wait
    /\ waited' = WaitIncrements
    /\ sizing' = None
    \* historical is fetched once, before the loop: steps 7 of all cycles
    \* compute the same allocations
    /\ \E perf \in CyclePerformances :
           cycleAllocations' = AllocationsDict(compute_sector_allocations(perf))
    /\ UNCHANGED <<clockVars, washVars, settleVars, cycle, cycleSignals, sigIdx,
                   live_prices, orders, running>>
    /\ CycleFrame

\* `while running`, the market open: steps 3 to 10 of a cycle
CycleBegin ==
    /\ cyclePc = "sleep"
    /\ waited = WaitIncrements
    /\ running
    /\ cycle < MaxCycles
    /\ cycle' = cycle + 1
    /\ \E prices \in CyclePriceMaps, scores \in CycleScoreMaps :
           LET windows_now == [s \in Symbols |-> WindowAt(1000)]
               allocs      == cycleAllocations
               expired     == Expired(blocked, now)
               blocked_now == Without(blocked, expired)
               flags       == [s \in Symbols |->
                                  get_risk_flags(s, Cardinality(DOMAIN holdings),
                                                 blocked_now)]
           IN /\ live_prices' = prices
              \* 8. portfolio.update_market_values(live_prices)
              /\ total_value' = update_market_values(holdings, cash, prices)
              \* 9. wash_tracker.is_blocked(sym) for every symbol
              /\ blocked' = blocked_now
              /\ washFile' = IF expired # {} THEN FileWith(blocked_now) ELSE washFile
              /\ washCall' = [op |-> "is_blocked",
                              symbol |-> ALL_SYMBOLS[Len(ALL_SYMBOLS)], loss |-> 0,
                              result |-> ALL_SYMBOLS[Len(ALL_SYMBOLS)] \in DOMAIN blocked_now,
                              listed |-> {}, saved |-> FALSE]
              \* 10. generate_all_signals
              /\ cycleSignals' = generate_all_signals(scores, windows_now, allocs,
                                                      DOMAIN holdings, flags)
    /\ sigIdx' = 1
    /\ orders' = << >>
    /\ sizing' = None
    /\ cyclePc' = "orders"
    /\ trackerCall' = TrackerCall("update_market_values")
    /\ waited' = 0
    /\ UNCHANGED <<now, lastBlock, settleVars, mode, tradesFile, simTrades,
                   holdings, cash, portfolioFile, lastSim, running,
                   cycleAllocations>>
    /\ CycleFrame

\* step 11, one iteration of `for sig in signals`
OrderIteration ==
    /\ cyclePc = "orders"
    /\ sigIdx <= Len(cycleSignals)
    \* if not running: break
    /\ running
    /\ LET sg   == cycleSignals[sigIdx]
           body == LoopBody(sg)
           pos  == holdings[sg.symbol]
       IN \E ex \in ExecutorOutcomes(mode) :
           LET called == body.result \in {"buy", "sell"}
               raised == called /\ ex = "raised"
               trade  == Trade(IF body.result = "buy" THEN "BUY" ELSE "SELL",
                               sg.symbol, body.quantity, body.price)
               \* execute_sell returned: the wash sale and the proceeds
               sold   == body.result = "sell" /\ ~raised
               loss   == SaleLoss(pos, body.price)
               blocks == sold /\ LossAtThreshold(loss)
               settle_date == SettleDate(now)
               proceeds    == body.quantity * body.price
           IN \* the executor: SimExecutor appends and saves, or fails to save
              /\ simTrades' = IF called /\ mode = "SIM"
                              THEN Append(simTrades, trade) ELSE simTrades
              /\ tradesFile' = IF called /\ mode = "SIM" /\ ~raised
                               THEN FileWith(simTrades') ELSE tradesFile
              \* wash_tracker.record_sale(sig.symbol, loss)
              /\ blocked' = IF blocks
                            THEN Put(blocked, sg.symbol,
                                     isoformat(now + Days(WASH_SALE_BLOCK_DAYS)))
                            ELSE blocked
              /\ washFile' = IF blocks THEN FileWith(blocked') ELSE washFile
              /\ lastBlock' = IF blocks
                              THEN [lastBlock EXCEPT ![sg.symbol] = Some(now)]
                              ELSE lastBlock
              /\ washCall' = IF blocks
                             THEN [op |-> "record_sale", symbol |-> sg.symbol,
                                   loss |-> loss[1] \div loss[2], result |-> FALSE,
                                   listed |-> {}, saved |-> TRUE]
                             ELSE washCall
              \* settlement.get_unavailable_cash(), record_sale_proceeds(qty * price)
              /\ pending' = IF sold
                            THEN Put(body.pending, settle_date,
                                     Get(body.pending, settle_date, 0) + proceeds)
                            ELSE body.pending
              /\ settleCall' =
                     IF sold
                     THEN [op |-> "record_sale_proceeds", amount |-> proceeds,
                           result |-> 0]
                     ELSE IF body.queried # None
                     THEN [op |-> "get_unavailable_cash", amount |-> 0,
                           result |-> ValueOf(body.queried)]
                     ELSE settleCall
              /\ recorded' = IF sold
                             THEN Append(recorded, [day |-> strftime_date(now),
                                                    amount |-> proceeds])
                             ELSE recorded
              /\ sizing' = IF body.sized # None THEN body.sized ELSE sizing
              /\ orders' = Append(orders,
                               OrderLog(sg, IF called THEN ex ELSE body.result,
                                        body.quantity, body.price, total_value,
                                        body.avail))
              \* an exception leaves the loop and the cycle: `except Exception`
              /\ cyclePc' = IF raised THEN "sleep" ELSE "orders"
              /\ sigIdx' = IF raised THEN sigIdx ELSE sigIdx + 1
    /\ UNCHANGED <<now, mode, holdings, cash, total_value, portfolioFile,
                   trackerCall, lastSim, cycle, cycleSignals, live_prices,
                   cycleAllocations, waited>>
    /\ CycleFrame

\* an iteration during which no signal arrives
ProcessSignal ==
    /\ OrderIteration
    /\ UNCHANGED running

\* step 12, after the last signal or the break: the sync at the end of the
\* cycle
CycleSync ==
    /\ cyclePc = "orders"
    /\ sigIdx > Len(cycleSignals) \/ ~running
    /\ PortfolioSync
    /\ cyclePc' = "sleep"
    /\ UNCHANGED <<clockVars, washVars, settleVars, cycle, cycleSignals, sigIdx,
                   live_prices, cycleAllocations, sizing, orders, running, waited>>
    /\ CycleFrame

\* step 2, the market closed: the cycle is the wait
MarketClosed ==
    /\ cyclePc = "sleep"
    /\ waited = WaitIncrements
    /\ running
    /\ cycle < MaxCycles
    /\ cycle' = cycle + 1
    /\ waited' = 0
    /\ UNCHANGED <<clockVars, washVars, settleVars, trackerVars, cycleSignals,
                   sigIdx, cyclePc, live_prices, cycleAllocations, sizing, orders,
                   running>>
    /\ CycleFrame

\* _sleep(POLL_INTERVAL_SECONDS, ...) when no signal arrives: all the turns of
\* its loop; in each of them the clock may reach the next tick
CycleSleep ==
    /\ cyclePc = "sleep"
    /\ waited < WaitIncrements
    /\ running
    /\ waited' = WaitIncrements
    /\ now' \in now..Min2(now + (WaitIncrements - waited), MaxCycleNow)
    /\ UNCHANGED <<washVars, settleVars, trackerVars, cycle, cycleSignals, sigIdx,
                   cyclePc, live_prices, cycleAllocations, sizing, orders, running>>
    /\ CycleFrame

CycleNext ==
    \/ SizePosition
    \/ CycleStartup
    \/ CycleBegin
    \/ MarketClosed
    \/ ProcessSignal
    \/ CycleSync
    \/ CycleSleep

InitCycle ==
    CycleInit /\ IdleExcept({"clock", "wash", "settle", "tracker", "cycle"})

SpecCycle == InitCycle /\ [][CycleNext]_vars

\* the results of an iteration that handed an order to the executor
Executed == {"logged", "raised", "placed", "preview_failed", "no_preview_ids",
             "place_failed"}

BuyActions == {ACTION_BUY, ACTION_STRONG_BUY}

\* C11: every buy order the cycle executes has quantity > 0 and a cost
\* (quantity x price) that exceeds neither total portfolio value x 5% nor
\* the available cash (portfolio cash minus the proceeds pending settlement)
\* read when it was sized; compute_position_size returns 0 for a
\* non-positive price or portfolio value and never a negative quantity.
C11_BuyOrdersWithinCaps ==
    /\ \A i \in 1..Len(orders) :
           (orders[i].action \in BuyActions /\ orders[i].result \in Executed) =>
               LET cost == orders[i].quantity * orders[i].price IN
               /\ orders[i].quantity > 0
               /\ cost * 100 * orders[i].portfolio_value[2]
                      <= orders[i].portfolio_value[1] * 5
               /\ orders[i].avail # None
               /\ cost <= ValueOf(orders[i].avail)
    /\ (cyclePc = "orders" /\ orders # << >>
        /\ orders[Len(orders)].action \in BuyActions
        /\ orders[Len(orders)].result \in Executed) =>
           ValueOf(orders[Len(orders)].avail)
               = cash - RecordedOn(recorded, now \div TicksPerDay)
    /\ sizing # None =>
           /\ ValueOf(sizing).result >= 0
           /\ (ValueOf(sizing).price <= 0 \/ ValueOf(sizing).portfolio_value[1] <= 0)
                  => ValueOf(sizing).result = 0

\* C11 witness: a buy sized at 5 shares by the 5% cap went out with the 3
\* shares the available cash pays for
C11_Witness ==
    /\ orders # << >>
    /\ orders[Len(orders)].action \in BuyActions
    /\ orders[Len(orders)].result = "placed"
    /\ ValueOf(sizing).result = 5
    /\ orders[Len(orders)].quantity = 3
    /\ orders[Len(orders)].avail = Some(3000)

\* a buy went out at the size the 5% cap allows
C11_WitnessCapped ==
    /\ orders # << >>
    /\ orders[Len(orders)].action \in BuyActions
    /\ orders[Len(orders)].result = "logged"
    /\ orders[Len(orders)].quantity = 500
    /\ orders[Len(orders)].portfolio_value = <<INITIAL_CASH, 1>>

\* compute_position_size returned 0 for a price of 0 and sized a symbol of a
\* sector of 17 from the per-stock budget
C11_WitnessSizing ==
    /\ sizing # None
    /\ ValueOf(sizing).num_sector_stocks = 17
    /\ ValueOf(sizing).price = 1000
    /\ ValueOf(sizing).portfolio_value = <<100000, 1>>
    /\ ValueOf(sizing).sector_allocation = <<1, 3>>
    /\ ValueOf(sizing).result = 1

\* C15: within one cycle the orders are executed one after the other in the
\* order of the signal list (priority descending), and a failed order - a
\* failed preview or place, or an error raised while executing or persisting
\* it - does not keep the remaining signals of the cycle from being
\* processed: when the cycle is over, every signal has been processed.
C15_FailureDoesNotBlockLaterOrders ==
    /\ Len(orders) <= Len(cycleSignals)
    /\ \A i \in 1..Len(orders) :
           /\ orders[i].symbol = cycleSignals[i].symbol
           /\ i > 1 => orders[i - 1].priority >= orders[i].priority
    /\ cyclePc = "sleep" => Len(orders) = Len(cycleSignals)

(***************************************************************************)
(* value_scorer.py : the six sub-metric scorers and compute_value_score    *)
(*                                                                         *)
(* fundamentals is the record of what fundamentals.get(key) returns for    *)
(* the seven keys: None for a key that is absent or null, Some(v)          *)
(* otherwise.  P/E, debt/equity and the two prices are whole numbers, the  *)
(* growths and the margin are the exact fractions <<n, d>> the decimals    *)
(* stand for (0.25 = <<1, 4>>), so that growth * 100 is a computed         *)
(* product.  On the sampled inputs (whole percents, whole prices) the      *)
(* float product equals the exact one at every threshold, so the           *)
(* comparisons are those of the exact values.  Weights are in thousandths, *)
(* the weighted sum in thousandths of a point, the score in hundredths.    *)
(***************************************************************************)
NEUTRAL == 50

SCORE_WEIGHT_PE == 250
SCORE_WEIGHT_EPS_GROWTH == 250
SCORE_WEIGHT_REVENUE_GROWTH == 150
SCORE_WEIGHT_PROFIT_MARGIN == 100
SCORE_WEIGHT_DEBT_EQUITY == 100

SCORE_WEIGHT_FAIR_VALUE_GAP_AsMargin == SCORE_WEIGHT_PROFIT_MARGIN

SCORE_WEIGHT_FAIR_VALUE_GAP == 150

MaxMetricDelta == 1           \* inputs sampled this close to a threshold

\* pct > t, pct an exact fraction and t a whole number
Above(pct, t) == ~RatLeq(pct, RatInt(t))

\* pct = growth * 100
Percent(growth) == RatTimes(growth, 100)

_score_pe_Transposed(pe) ==
    IF pe = None \/ ValueOf(pe) <= 0 THEN NEUTRAL
    ELSE IF ValueOf(pe) < 10 THEN 100
    ELSE IF ValueOf(pe) < 15 THEN 58
    ELSE IF ValueOf(pe) < 20 THEN 70
    ELSE IF ValueOf(pe) < 25 THEN 55
    ELSE IF ValueOf(pe) < 30 THEN 40
    ELSE IF ValueOf(pe) < 40 THEN 25
    ELSE 10

_score_pe(pe) ==
    IF pe = None \/ ValueOf(pe) <= 0 THEN NEUTRAL
    ELSE IF ValueOf(pe) < 10 THEN 100
    ELSE IF ValueOf(pe) < 15 THEN 85
    ELSE IF ValueOf(pe) < 20 THEN 70
    ELSE IF ValueOf(pe) < 25 THEN 55
    ELSE IF ValueOf(pe) < 30 THEN 40
    ELSE IF ValueOf(pe) < 40 THEN 25
    ELSE 10

_score_eps_growth(growth) ==
    IF growth = None THEN NEUTRAL
    ELSE LET pct == Percent(ValueOf(growth))
         IN IF Above(pct, 30) THEN 100
            ELSE IF Above(pct, 20) THEN 85
            ELSE IF Above(pct, 10) THEN 70
            ELSE IF Above(pct, 5) THEN 60
            ELSE IF Above(pct, 0) THEN 45
            ELSE IF Above(pct, -10) THEN 30
            ELSE 10

_score_revenue_growth(growth) ==
    IF growth = None THEN NEUTRAL
    ELSE LET pct == Percent(ValueOf(growth))
         IN IF Above(pct, 25) THEN 100
            ELSE IF Above(pct, 15) THEN 85
            ELSE IF Above(pct, 10) THEN 70
            ELSE IF Above(pct, 5) THEN 55
            ELSE IF Above(pct, 0) THEN 40
            ELSE IF Above(pct, -5) THEN 25
            ELSE 10

_score_profit_margin(margin) ==
    IF margin = None THEN NEUTRAL
    ELSE LET pct == Percent(ValueOf(margin))
         IN IF Above(pct, 30) THEN 100
            ELSE IF Above(pct, 20) THEN 85
            ELSE IF Above(pct, 15) THEN 70
            ELSE IF Above(pct, 10) THEN 55
            ELSE IF Above(pct, 5) THEN 40
            ELSE IF Above(pct, 0) THEN 25
            ELSE 10

_score_debt_equity(de) ==
    IF de = None THEN NEUTRAL
    ELSE IF ValueOf(de) < 20 THEN 100
    ELSE IF ValueOf(de) < 50 THEN 85
    ELSE IF ValueOf(de) < 80 THEN 70
    ELSE IF ValueOf(de) < 120 THEN 55
    ELSE IF ValueOf(de) < 180 THEN 40
    ELSE IF ValueOf(de) < 250 THEN 25
    ELSE 10

\* gap_pct = (target - price) / target * 100, computed for target > 0 only
GapPct(price, target) == RatTimes(Rat(target - price, target), 100)

_score_fair_value_gap(price, target) ==
    IF price = None \/ target = None \/ ValueOf(target) <= 0 THEN NEUTRAL
    ELSE LET gap_pct == GapPct(ValueOf(price), ValueOf(target))
         IN IF Above(gap_pct, 30) THEN 100
            ELSE IF Above(gap_pct, 20) THEN 85
            ELSE IF Above(gap_pct, 10) THEN 70
            ELSE IF Above(gap_pct, 5) THEN 55
            ELSE IF Above(gap_pct, 0) THEN 40
            ELSE IF Above(gap_pct, -10) THEN 25
            ELSE 10

\* the six locals of compute_value_score
SubScores(f) ==
    [pe_score     |-> _score_pe(f.pe),
     eps_score    |-> _score_eps_growth(f.eps_growth),
     rev_score    |-> _score_revenue_growth(f.revenue_growth),
     margin_score |-> _score_profit_margin(f.profit_margin),
     de_score     |-> _score_debt_equity(f.debt_equity),
     fv_score     |-> _score_fair_value_gap(f.current_price, f.analyst_target)]

\* weighted, in thousandths of a point
Weighted(s) ==
    SCORE_WEIGHT_PE * s.pe_score
    + SCORE_WEIGHT_EPS_GROWTH * s.eps_score
    + SCORE_WEIGHT_REVENUE_GROWTH * s.rev_score
    + SCORE_WEIGHT_PROFIT_MARGIN * s.margin_score
    + SCORE_WEIGHT_DEBT_EQUITY * s.de_score
    + SCORE_WEIGHT_FAIR_VALUE_GAP * s.fv_score

\* round(min(100.0, max(0.0, weighted)), 2), in hundredths
compute_value_score(f) ==
    RoundHalfEven(Min2(100 * 1000, Max2(0, Weighted(SubScores(f)))), 10)

(* Inputs: one metric at a time runs over the values around its thresholds *)
(* (and null) while the others are null, in their best band or in their    *)
(* worst; the documented example is a record of its own.                   *)
Near(thresholds) == {t + d : t \in thresholds, d \in (0 - MaxMetricDelta)..MaxMetricDelta}
Options(values) == {None} \cup {Some(v) : v \in values}
Fractions(percents) == {Rat(k, 100) : k \in percents}

PeValues == Options(Near({0, 10, 15, 20, 25, 30, 40}))
EpsValues == Options(Fractions(Near({-10, 0, 5, 10, 20, 30})))
RevValues == Options(Fractions(Near({-5, 0, 5, 10, 15, 25})))
MarginValues == Options(Fractions(Near({0, 5, 10, 15, 20, 30})))
DeValues == Options(Near({0, 20, 50, 80, 120, 180, 250}))
\* <<current_price, analyst_target>>
GapValues ==
    {<<Some(100 - g), Some(100)>> : g \in Near({-10, 0, 5, 10, 20, 30})}
    \cup {<<None, None>>, <<None, Some(100)>>, <<Some(100), None>>,
          <<Some(100), Some(0)>>, <<Some(100), Some(-100)>>,
          <<Some(0), Some(100)>>}

PeCoarse == {None, Some(5), Some(45)}
EpsCoarse == {None, Some(Rat(35, 100)), Some(Rat(-15, 100))}
RevCoarse == {None, Some(Rat(35, 100)), Some(Rat(-15, 100))}
MarginCoarse == {None, Some(Rat(35, 100)), Some(Rat(-15, 100))}
DeCoarse == {None, Some(10), Some(300)}
GapCoarse == {<<None, None>>, <<Some(60), Some(100)>>, <<Some(120), Some(100)>>}

Fundamentals(pe, eps, rev, margin, de, gap) ==
    [pe |-> pe, eps_growth |-> eps, revenue_growth |-> rev,
     profit_margin |-> margin, debt_equity |-> de,
     current_price |-> gap[1], analyst_target |-> gap[2]]

Records(Pe, Eps, Rev, Margin, De, Gap) ==
    {Fundamentals(a, b, c, d, e, g) :
        a \in Pe, b \in Eps, c \in Rev, d \in Margin, e \in De, g \in Gap}

ExampleFundamentals ==
    Fundamentals(Some(12), Some(Rat(25, 100)), Some(Rat(20, 100)),
                 Some(Rat(22, 100)), Some(15), <<Some(100), Some(140)>>)

FundamentalsRecords ==
    Records(PeValues, EpsCoarse, RevCoarse, MarginCoarse, DeCoarse, GapCoarse)
    \cup Records(PeCoarse, EpsValues, RevCoarse, MarginCoarse, DeCoarse, GapCoarse)
    \cup Records(PeCoarse, EpsCoarse, RevValues, MarginCoarse, DeCoarse, GapCoarse)
    \cup Records(PeCoarse, EpsCoarse, RevCoarse, MarginValues, DeCoarse, GapCoarse)
    \cup Records(PeCoarse, EpsCoarse, RevCoarse, MarginCoarse, DeValues, GapCoarse)
    \cup Records(PeCoarse, EpsCoarse, RevCoarse, MarginCoarse, DeCoarse, GapValues)
    \cup {ExampleFundamentals}

ScoreInit ==
    /\ fundamentals \in FundamentalsRecords
    /\ scored = None

\* compute_value_score(fundamentals)
ComputeValueScore ==
    /\ scored = None
    /\ scored' = Some([sub   |-> SubScores(fundamentals),
                       score |-> compute_value_score(fundamentals)])
    /\ UNCHANGED fundamentals
    /\ FrameExcept({"score"})

ScoreNext == ComputeValueScore

InitScore == ScoreInit /\ IdleExcept({"score"})

SpecScore == InitScore /\ [][ScoreNext]_vars

(***************************************************************************)
(* Claims about the value scorer                                           *)
(***************************************************************************)
Bands == {10, 25, 40, 55, 70, 85, 100}

WeightSum ==
    SCORE_WEIGHT_PE + SCORE_WEIGHT_EPS_GROWTH + SCORE_WEIGHT_REVENUE_GROWTH
    + SCORE_WEIGHT_PROFIT_MARGIN + SCORE_WEIGHT_DEBT_EQUITY
    + SCORE_WEIGHT_FAIR_VALUE_GAP

MissingFields(f) == {k \in DOMAIN f : f[k] = None}

\* C17: the six weights sum to exactly 1.0 (1000 thousandths) and, whatever
\* fields are missing and whatever the values, compute_value_score returns
\* a value within [0, 100].
C17_WeightsAndRange ==
    /\ WeightSum = 1000
    /\ scored # None =>
          /\ ValueOf(scored).score >= 0
          /\ ValueOf(scored).score <= 100 * 100

\* every present metric in its best band: the score is the upper bound
C17_Witness ==
    /\ scored # None
    /\ MissingFields(fundamentals) = {}
    /\ ValueOf(scored).score = 100 * 100

\* some fields missing, the others in their worst band
C17_WitnessMissing ==
    /\ scored # None
    /\ MissingFields(fundamentals) = {"pe", "debt_equity"}
    /\ ValueOf(scored).score = 24 * 100

\* C18: each sub-scorer returns a band of {10, 25, 40, 55, 70, 85, 100} for
\* a present, valid input and exactly the neutral 50 for a missing or invalid
\* one (null, non-positive P/E, non-positive analyst target).
C18_BandsAndNeutral ==
    scored # None =>
        LET f == fundamentals
            s == ValueOf(scored).sub
        IN /\ IF f.pe = None \/ ValueOf(f.pe) <= 0
              THEN s.pe_score = NEUTRAL ELSE s.pe_score \in Bands
           /\ IF f.eps_growth = None
              THEN s.eps_score = NEUTRAL ELSE s.eps_score \in Bands
           /\ IF f.revenue_growth = None
              THEN s.rev_score = NEUTRAL ELSE s.rev_score \in Bands
           /\ IF f.profit_margin = None
              THEN s.margin_score = NEUTRAL ELSE s.margin_score \in Bands
           /\ IF f.debt_equity = None
              THEN s.de_score = NEUTRAL ELSE s.de_score \in Bands
           /\ IF f.current_price = None \/ f.analyst_target = None
                 \/ ValueOf(f.analyst_target) <= 0
              THEN s.fv_score = NEUTRAL ELSE s.fv_score \in Bands

\* C19: for the documented example every sub-score is in the top bracket
\* (100) and the composite score is at least 90.
C19_ExampleScoresNinety ==
    (scored # None /\ fundamentals = ExampleFundamentals) =>
        /\ \A k \in DOMAIN ValueOf(scored).sub : ValueOf(scored).sub[k] = 100
        /\ ValueOf(scored).score >= 90 * 100

\* the fair-value gap (target - price) / target of a present pair, target # 0
Gap(g) ==
    LET price == ValueOf(g[1])
        target == ValueOf(g[2])
    IN IF target > 0 THEN Rat(target - price, target)
       ELSE Rat(price - target, 0 - target)

GapPresent(g) == g[1] # None /\ g[2] # None /\ ValueOf(g[2]) # 0

\* the inputs the comparison ranges over: every present input, or only the
\* valid ones (a positive P/E, a positive analyst target)
PeCompared(pe, validOnly) == pe # None /\ (validOnly => ValueOf(pe) > 0)
GapCompared(g, validOnly) == GapPresent(g) /\ (validOnly => ValueOf(g[2]) > 0)

\* the scored input against every other sampled input of the same metric
MonotonicOver(validOnly) ==
    LET f == fundamentals
        s == ValueOf(scored).sub
        g == <<f.current_price, f.analyst_target>>
    IN /\ \A o \in PeValues :
            (PeCompared(f.pe, validOnly) /\ PeCompared(o, validOnly)
             /\ ValueOf(o) <= ValueOf(f.pe)) => _score_pe(o) >= s.pe_score
       /\ \A o \in DeValues :
            (f.debt_equity # None /\ o # None
             /\ ValueOf(o) <= ValueOf(f.debt_equity))
                => _score_debt_equity(o) >= s.de_score
       /\ \A o \in EpsValues :
            (f.eps_growth # None /\ o # None
             /\ RatLeq(ValueOf(f.eps_growth), ValueOf(o)))
                => _score_eps_growth(o) >= s.eps_score
       /\ \A o \in RevValues :
            (f.revenue_growth # None /\ o # None
             /\ RatLeq(ValueOf(f.revenue_growth), ValueOf(o)))
                => _score_revenue_growth(o) >= s.rev_score
       /\ \A o \in MarginValues :
            (f.profit_margin # None /\ o # None
             /\ RatLeq(ValueOf(f.profit_margin), ValueOf(o)))
                => _score_profit_margin(o) >= s.margin_score
       /\ \A o \in GapValues \cup GapCoarse :
            (GapCompared(g, validOnly) /\ GapCompared(o, validOnly)
             /\ RatLeq(Gap(g), Gap(o)))
                => _score_fair_value_gap(o[1], o[2]) >= s.fv_score

\* C20 as stated: each sub-scorer is monotonic in the favorable direction
\* over its inputs (lower P/E and debt/equity, higher growths, margin and
\* fair-value gap never score lower).
C20_MonotonicOverAllInputs == scored # None => MonotonicOver(FALSE)

\* C20 as amended: the same over valid inputs, that is a positive P/E and a
\* positive analyst target.
C20_MonotonicOverValidInputs == scored # None => MonotonicOver(TRUE)

\* a valid P/E was scored and a lower valid P/E scores strictly higher
C20_Witness ==
    /\ scored # None
    /\ PeCompared(fundamentals.pe, TRUE)
    /\ \E o \in PeValues :
          /\ PeCompared(o, TRUE)
          /\ ValueOf(o) < ValueOf(fundamentals.pe)
          /\ _score_pe(o) > ValueOf(scored).sub.pe_score

(***************************************************************************)
(* Claims about the sector allocation, continued                           *)
(***************************************************************************)
\* C24: allocation is inverse to performance: of two sectors of the
\* performance map the one with the strictly lower return never receives
\* the smaller allocation, and with returns -10% and +5% alone in the map
\* the worse sector's allocation is strictly greater.
C24_InverseToPerformance ==
    alloc # None =>
        LET a == ValueOf(alloc).num IN
        /\ \A s, t \in DOMAIN performances :
              performances[s] < performances[t] => a[s] >= a[t]
        /\ \A s, t \in DOMAIN performances :
              (DOMAIN performances = {s, t}
               /\ performances[s] = -10 /\ performances[t] = 5) => a[s] > a[t]

\* the example: two sectors, -10% and +5%, allocated 11/14 and 3/14
C24_Witness ==
    /\ alloc # None
    /\ \E s, t \in SectorSet :
          /\ DOMAIN performances = {s, t}
          /\ performances[s] = -10 /\ performances[t] = 5
          /\ ValueOf(alloc).num[s] * 3 = ValueOf(alloc).num[t] * 11

(***************************************************************************)
(* main.py : run, construction of the components (lines 135 to 144).       *)
(*                                                                         *)
(* The three _load methods and sync_from_sim read their file with          *)
(* json.load inside `except (json.JSONDecodeError, IOError)`.  A file that *)
(* cannot be read or is not JSON (empty, truncated) is CorruptFile; a file *)
(* whose bytes are not UTF-8 text is UndecodableFile: reading it raises    *)
(* UnicodeDecodeError, which the except clause does not name.              *)
(***************************************************************************)
UndecodableFile == [state |-> "undecodable", content |-> << >>]

\* json.load raises an exception the except clause lets through
LoadRaises(file) == file.state = "undecodable"

LoadWashFiles ==
    {AbsentFile, CorruptFile, UndecodableFile, FileWith(<< >>),
     FileWith([s \in {ALL_SYMBOLS[1]} |-> isoformat(Days(WASH_SALE_BLOCK_DAYS))])}

LoadTradesFiles ==
    {AbsentFile, CorruptFile, UndecodableFile, FileWith(<< >>),
     FileWith(<<Trade("BUY", ALL_SYMBOLS[1], 1, 1000)>>)}

LoadPortfolioFiles ==
    {AbsentFile, CorruptFile, UndecodableFile,
     SavedState([s \in {ALL_SYMBOLS[1]} |-> Holding(1, RatInt(1000))],
                INITIAL_CASH - 1000, RatInt(INITIAL_CASH))}

\* run() up to line 134: nothing is constructed yet
LoadInit ==
    /\ mode \in {"SIM", "REAL"}
    /\ washFile \in LoadWashFiles
    /\ tradesFile \in LoadTradesFiles
    /\ portfolioFile \in LoadPortfolioFiles
    /\ now = 0
    /\ blocked = << >>
    /\ washCall = NoCall
    /\ lastBlock = [s \in Symbols |-> None]
    /\ pending = << >>
    /\ settleCall = NoSettleCall
    /\ recorded = << >>
    /\ simTrades = << >>
    /\ holdings = << >>
    /\ cash = 0
    /\ total_value = RatInt(0)
    /\ trackerCall = TrackerCall("init")
    /\ lastSim = None
    /\ cycle = 0
    /\ cycleSignals = << >>
    /\ sigIdx = 0
    /\ cyclePc = "wash_tracker"
    /\ live_prices = << >>
    /\ cycleAllocations = << >>
    /\ sizing = None
    /\ orders = << >>
    /\ running = TRUE
    /\ waited = 0

\* wash_tracker = WashSaleTracker()
ConstructWashTracker ==
    /\ cyclePc = "wash_tracker"
    /\ IF LoadRaises(washFile)
       THEN cyclePc' = "fatal" /\ UNCHANGED blocked
       ELSE cyclePc' = "portfolio" /\ blocked' = WashLoad(washFile)
    /\ UNCHANGED <<clockVars, washFile, washCall, lastBlock, settleVars, trackerVars,
                   cycle, cycleSignals, sigIdx, live_prices, cycleAllocations,
                   sizing, orders, running, waited>>
    /\ CycleFrame

\* settlement = SettlementTracker(); portfolio = PortfolioTracker()
ConstructPortfolio ==
    /\ cyclePc = "portfolio"
    /\ IF LoadRaises(portfolioFile)
       THEN cyclePc' = "fatal" /\ UNCHANGED <<holdings, cash, total_value>>
       ELSE LET st == PortfolioLoad(portfolioFile)
            IN /\ cyclePc' = "executor"
               /\ holdings' = st.holdings
               /\ cash' = st.cash
               /\ total_value' = st.total_value
    /\ UNCHANGED <<clockVars, washVars, settleVars, mode, tradesFile, simTrades,
                   portfolioFile, trackerCall, lastSim, cycle, cycleSignals,
                   sigIdx, live_prices, cycleAllocations, sizing, orders, running,
                   waited>>
    /\ CycleFrame

\* executor = SimExecutor() or RealExecutor(etrade, account)
ConstructExecutor ==
    /\ cyclePc = "executor"
    /\ IF mode = "SIM" /\ LoadRaises(tradesFile)
       THEN cyclePc' = "fatal" /\ UNCHANGED simTrades
       ELSE /\ cyclePc' = "first_sync"
            /\ simTrades' = IF mode = "SIM" THEN TradesLoad(tradesFile)
                            ELSE simTrades
    /\ UNCHANGED <<clockVars, washVars, settleVars, mode, tradesFile, holdings, cash,
                   total_value, portfolioFile, trackerCall, lastSim, cycle,
                   cycleSignals, sigIdx, live_prices, cycleAllocations, sizing,
                   orders, running, waited>>
    /\ CycleFrame

\* portfolio.sync_from_sim(TRADES_FILE) or portfolio.sync_from_api(...)
FirstSync ==
    /\ cyclePc = "first_sync"
    /\ IF mode = "SIM" /\ LoadRaises(tradesFile)
       THEN cyclePc' = "fatal" /\ UNCHANGED <<trackerVars, waited>>
       ELSE cyclePc' = "sleep" /\ waited' = WaitIncrements /\ PortfolioSync
    /\ UNCHANGED <<clockVars, washVars, settleVars, cycle, cycleSignals, sigIdx,
                   live_prices, cycleAllocations, sizing, orders, running>>
    /\ CycleFrame

LoadNext ==
    \/ ConstructWashTracker
    \/ ConstructPortfolio
    \/ ConstructExecutor
    \/ FirstSync

InitLoad ==
    LoadInit /\ IdleExcept({"clock", "wash", "settle", "tracker", "cycle"})

SpecLoad == InitLoad /\ [][LoadNext]_vars

\* a file the reader cannot use: unreadable, not JSON, or not text
Unusable(file) == file.state \in {"corrupt", "undecodable"}

\* C22: an unreadable or corrupt persisted file is never fatal and is
\* treated as absent: the wash-sale file loads as an empty block map, the
\* ledger as an empty trade list (the replay then gives the initial cash and
\* no holdings), the portfolio-state file as empty holdings and zero cash.
C22_CorruptFileTreatedAsAbsent ==
    /\ cyclePc # "fatal"
    /\ (Unusable(washFile) /\ cyclePc # "wash_tracker") => blocked = << >>
    /\ (Unusable(portfolioFile) /\ cyclePc = "executor")
          => holdings = << >> /\ cash = 0
    /\ (Unusable(tradesFile) /\ mode = "SIM" /\ cyclePc \in {"first_sync", "sleep"})
          => simTrades = << >>
    /\ (Unusable(tradesFile) /\ mode = "SIM" /\ cyclePc = "sleep")
          => holdings = << >> /\ cash = INITIAL_CASH

\* the same for the files the except clause covers: every component is
\* constructed and synced over three unreadable or non-JSON files
C22_CoveredFilesLoadEmpty ==
    (washFile = CorruptFile /\ tradesFile = CorruptFile
     /\ portfolioFile = CorruptFile /\ mode = "SIM" /\ cyclePc = "sleep")
        => blocked = << >> /\ simTrades = << >> /\ holdings = << >>
           /\ cash = INITIAL_CASH

(***************************************************************************)
(* Claims about the simulated ledger                                       *)
(***************************************************************************)
IsPrefix(s, t) == Len(s) <= Len(t) /\ \A i \in 1..Len(s) : t[i] = s[i]

NotPlaced == {"preview_failed", "no_preview_ids", "place_failed"}

\* the last iteration of the order loop was a sell in live mode that the
\* executor did not place
SellNotPlaced(log) ==
    /\ mode = "REAL"
    /\ log # << >>
    /\ log[Len(log)].action = ACTION_SELL
    /\ log[Len(log)].result \in NotPlaced

\* C27: in live mode a wash-sale block and pending settlement proceeds are
\* recorded for a sell only when the executor placed it: an iteration whose
\* execute_sell ended in a preview or place failure leaves the wash-sale
\* tracker and the settlement tracker as they were.
C27_FailedSellRecordsNothing ==
    [][(Len(orders') = Len(orders) + 1 /\ SellNotPlaced(orders')) =>
           /\ blocked' = blocked
           /\ washFile' = washFile
           /\ pending' = pending
           /\ recorded' = recorded]_vars

\* the iterations of this cycle's order loop that executed a sell
SellsOfCycle == {i \in 1..Len(orders) : /\ orders[i].action = ACTION_SELL
                                         /\ orders[i].result \in Executed \ {"raised"}}

\* every sale whose proceeds the settlement tracker was given belongs to the
\* cycle in progress
OnlySalesOfCycle == Len(recorded) = Cardinality(SellsOfCycle)

\* C30: in simulation mode, when a sell and then a buy are executed in the
\* same cycle, the available cash that caps the buy equals the portfolio
\* cash at the start of the cycle: the proceeds of the sell are not
\* spendable, and they are not subtracted from a cash balance that does not
\* yet include them.
C30_PendingProceedsNotDoubleBlocked ==
    (mode = "SIM" /\ cyclePc = "orders" /\ OnlySalesOfCycle) =>
        \A i \in SellsOfCycle : \A j \in (i + 1)..Len(orders) :
            (orders[j].action \in BuyActions /\ orders[j].avail # None) =>
                ValueOf(orders[j].avail) = cash

\* the holdings the ledger file replays to
LedgerHoldings(file) == sync_from_sim(<< >>, file, INITIAL_CASH).holdings

\* C29: in simulation mode a BUY record is never appended to the ledger for
\* a symbol whose ledger-replayed quantity is already positive, and the held
\* set the signals of a cycle are generated from agrees with the ledger at
\* the start of that cycle, also in the cycle after one cut short by an
\* error.
C29_NoBuyOfHeldSymbol ==
    [][mode = "SIM" =>
           /\ (Len(simTrades') = Len(simTrades) + 1
               /\ simTrades'[Len(simTrades')].action = "BUY") =>
                  simTrades'[Len(simTrades')].symbol
                      \notin DOMAIN LedgerHoldings(tradesFile)
           /\ cycle' = cycle + 1 =>
                  DOMAIN holdings = DOMAIN LedgerHoldings(tradesFile)]_vars

\* a sale of the symbol at a loss at or above the threshold was recorded in
\* this process and its block has not expired
SoldAtLoss(s) ==
    /\ lastBlock[s] # None
    /\ now < ValueOf(lastBlock[s]) + Days(WASH_SALE_BLOCK_DAYS)

\* C28: after the cycle executes a sell of a symbol that realizes a loss at
\* or above the threshold, no buy order for that symbol is executed in the
\* same cycle or in a later cycle that starts before the block expires
\* (one process, wash-sale file intact).
C28_NoBuyAfterLossSale ==
    /\ \A i \in 1..Len(orders) :
           (/\ cyclePc = "orders"
            /\ orders[i].action = ACTION_SELL
            /\ orders[i].result \in Executed \ {"raised"}
            /\ LossAtThreshold(SaleLoss(holdings[orders[i].symbol],
                                        orders[i].price))) =>
               SoldAtLoss(orders[i].symbol)
    /\ \A s \in Symbols :
        SoldAtLoss(s) =>
            /\ s \in DOMAIN blocked
            /\ \A i \in 1..Len(orders) :
                   ~(/\ orders[i].symbol = s
                     /\ orders[i].action \in BuyActions)
            /\ \A i \in 1..Len(cycleSignals) :
                   ~(/\ cyclePc = "orders"
                     /\ cycleSignals[i].symbol = s
                     /\ cycleSignals[i].action \in BuyActions)

\* C28 witness: in the cycle after the loss sale the symbol is no longer
\* held, another symbol of the same score goes out as a strong buy, and the
\* order loop has run to its end without an order for the sold symbol
C28_Witness ==
    /\ cycle = 2
    /\ cyclePc = "orders"
    /\ sigIdx > Len(cycleSignals)
    /\ SoldAtLoss(ALL_SYMBOLS[1])
    /\ ALL_SYMBOLS[1] \notin DOMAIN holdings
    /\ \E i \in 1..Len(orders) :
           /\ orders[i].symbol = ALL_SYMBOLS[2]
           /\ orders[i].action = ACTION_STRONG_BUY
           /\ orders[i].result \in Executed

RECURSIVE BuyCost(_)
\* the combined cost of the buys the order loop has executed
BuyCost(log) ==
    IF log = << >> THEN 0
    ELSE (IF Head(log).action \in BuyActions /\ Head(log).result = "logged"
          THEN Head(log).quantity * Head(log).price ELSE 0)
         + BuyCost(Tail(log))

\* C25: in simulation mode, from an empty ledger and the fixed initial cash,
\* the cash the ledger replays to is never negative: the combined cost of
\* the buys executed within one cycle never exceeds the cash available at
\* the start of that cycle.
C25_SimCashNeverNegative ==
    mode = "SIM" =>
        /\ INITIAL_CASH + LedgerCashFlow(TradesLoad(tradesFile)) >= 0
        /\ cash >= 0
        /\ cyclePc = "orders" => BuyCost(orders) <= cash

(***************************************************************************)
(* main.py : run, with a portfolio close to the position cap               *)
(*                                                                         *)
(* The universe of the model has three symbols and the cap is 20, so the   *)
(* run starts from a ledger that already bought HeldBefore further         *)
(* symbols.  They stand for the symbols of the universe that are held and  *)
(* get a HOLD signal in every cycle: no order is generated for them.       *)
(***************************************************************************)
HeldBefore == MAX_POSITIONS - 1

\* the symbols bought before the run
HeldSymbols == <<"H01", "H02", "H03", "H04", "H05", "H06", "H07", "H08", "H09",
                 "H10", "H11", "H12", "H13", "H14", "H15", "H16", "H17", "H18",
                 "H19">>

\* trades.json before the run: one share of each at 10.00
LedgerBefore == [i \in 1..HeldBefore |-> Trade("BUY", HeldSymbols[i], 1, 1000)]

CapInit ==
    /\ mode = "SIM"
    /\ tradesFile = FileWith(LedgerBefore)
    /\ simTrades = LedgerBefore
    /\ portfolioFile = AbsentFile
    /\ holdings = << >>
    /\ cash = 0
    /\ total_value = RatInt(0)
    /\ trackerCall = TrackerCall("init")
    /\ lastSim = None
    /\ now = 0
    /\ blocked = << >>
    /\ washFile = AbsentFile
    /\ washCall = NoCall
    /\ lastBlock = [s \in Symbols |-> None]
    /\ pending = << >>
    /\ settleCall = NoSettleCall
    /\ recorded = << >>
    /\ cycle = 0
    /\ cycleSignals = << >>
    /\ sigIdx = 0
    /\ cyclePc = "startup"
    /\ live_prices = << >>
    /\ cycleAllocations = << >>
    /\ sizing = None
    /\ orders = << >>
    /\ running = TRUE
    /\ waited = 0

InitCap ==
    CapInit /\ IdleExcept({"clock", "wash", "settle", "tracker", "cycle"})

SpecCap == InitCap /\ [][CycleNext]_vars

\* the step is the portfolio sync that ends a cycle
EndOfCycleSync ==
    /\ cyclePc = "orders"
    /\ cyclePc' = "sleep"
    /\ trackerCall'.op \in {"sync_from_sim", "sync_from_api"}

\* C26: the position cap is respected across cycles: a portfolio that holds
\* at most MAX_POSITIONS symbols at the start of a cycle holds at most
\* MAX_POSITIONS symbols after the orders of the cycle are executed and
\* reconciled, whatever signals the cycle generated.
C26_PositionCapAcrossCycles ==
    [][(EndOfCycleSync /\ Cardinality(DOMAIN holdings) <= MAX_POSITIONS) =>
           Cardinality(DOMAIN holdings') <= MAX_POSITIONS]_vars

(***************************************************************************)
(* main.py : run, the shutdown request                                     *)
(*                                                                         *)
(* SIGINT and SIGTERM run the handler `shutdown`, which clears `running`.  *)
(* The handler is installed after the components are built and runs        *)
(* between any two steps of the loop or while an order is with the         *)
(* executor.  The loop reads the flag at `while running`, at the top of    *)
(* each iteration of the order loop and in each turn of _sleep.            *)
(***************************************************************************)
\* shutdown(signum, frame), between two steps of the loop
Shutdown ==
    /\ cyclePc \in {"sleep", "orders"}
    /\ running
    /\ running' = FALSE
    /\ UNCHANGED <<clockVars, washVars, settleVars, trackerVars, cycle,
                   cycleSignals, sigIdx, cyclePc, live_prices, cycleAllocations,
                   sizing, orders, waited>>
    /\ CycleFrame

\* _sleep, one turn of its loop: check_running() and time.sleep(min(5, ...)),
\* during which the clock may reach the next tick
SleepTurn ==
    /\ cyclePc = "sleep"
    /\ waited < WaitIncrements
    /\ running
    /\ waited' = waited + 1
    /\ now' \in {now, Min2(now + 1, MaxCycleNow)}
    /\ UNCHANGED <<washVars, settleVars, trackerVars, cycle, cycleSignals, sigIdx,
                   cyclePc, live_prices, cycleAllocations, sizing, orders, running>>
    /\ CycleFrame

\* shutdown(signum, frame) while an iteration of the order loop is in
\* progress: the iteration runs to its end
InterruptedOrder ==
    /\ OrderIteration
    /\ running' = FALSE

\* _sleep returns because check_running() is false, and `while running` ends
\* the loop
LoopExit ==
    /\ cyclePc = "sleep"
    /\ ~running
    /\ cyclePc' = "done"
    /\ UNCHANGED <<clockVars, washVars, settleVars, trackerVars, cycle,
                   cycleSignals, sigIdx, live_prices, cycleAllocations, sizing,
                   orders, running, waited>>
    /\ CycleFrame

MaxRunCycles == 1             \* cycles of a run that is asked to stop

\* a cycle of the run
RunBegin ==
    /\ cycle < MaxRunCycles
    /\ CycleBegin

\* a cycle of the run with the market closed
RunClosed ==
    /\ cycle < MaxRunCycles
    /\ MarketClosed

RunNext ==
    \/ CycleStartup
    \/ RunBegin
    \/ RunClosed
    \/ ProcessSignal
    \/ InterruptedOrder
    \/ CycleSync
    \/ SleepTurn
    \/ Shutdown
    \/ LoopExit

\* the order loop that finds the flag cleared leaves for the sync of step 12:
\* the step is CycleSync, the only one that changes cyclePc there
LeavesOrders == ~running /\ cyclePc = "orders" /\ cyclePc' = "sleep"

\* the thread of run goes on as long as the calls it makes return: a loop
\* that can go to its sync does, a wait that can end does
SpecRun ==
    InitCycle /\ [][RunNext]_vars /\ WF_cyclePc(LeavesOrders) /\ WF_vars(LoopExit)

\* once the request is received no new cycle starts, no further order is
\* begun and _sleep sleeps no further increment
NoNewWork ==
    ~running => /\ cycle' = cycle
                /\ orders' = orders
                /\ waited' = waited
                /\ now' = now

\* the order loop that finds the flag cleared goes to the sync of step 12
BreakGoesToSync ==
    (~running /\ cyclePc = "orders") =>
        /\ cyclePc' = "sleep"
        /\ trackerCall'.op \in {"sync_from_sim", "sync_from_api"}

\* a request received while the cycle is at its orders leaves the cycle on
\* its way to the sync
RequestKeepsCycle ==
    (running /\ ~running' /\ cyclePc = "orders") => cyclePc' = "orders"

\* C21: once a shutdown request is received, no new cycle starts and no
\* further order is begun (an order already executing finishes); the wait
\* between cycles ends within one increment, the portfolio sync at the end
\* of the cycle in progress still runs, and the polling loop eventually
\* terminates provided external calls return.
C21_GracefulShutdown ==
    /\ [][NoNewWork]_vars
    /\ [][BreakGoesToSync]_vars
    /\ [][RequestKeepsCycle]_vars
    /\ (~running ~> cyclePc = "done")

\* the order that was with the executor when the request came raised
OrderRaised == orders' # << >> /\ orders'[Len(orders')].result = "raised"

\* the claim but for the sync of a cycle whose order in progress raised
C21_StopsWithoutNewWork ==
    [][NoNewWork /\ BreakGoesToSync /\ (RequestKeepsCycle \/ OrderRaised)]_vars

\* after the request the loop ends
C21_LoopTerminates == ~running ~> cyclePc = "done"

====
